---- MODULE Spec2Model ----
(***************************************************************************)
(* The 5-stage pipeline simulator of src/test3/test3.c as a state machine. *)
(* One iteration of the simulation loop of main is the action sequence     *)
(*   LoopEnter, WB, MEM, EX, ID, IF, PrintSave, PrintRestore, Advance      *)
(* and the loop ends with LoopExit.  The CPU container is the record       *)
(* `cpu`; the file-scope arrays R[] and memory[] that memory_stage uses    *)
(* are the variables R and memory.                                         *)
(*                                                                         *)
(* Arrays that main or the C runtime zero are kept as functions; the two   *)
(* memories are kept sparsely (only written words are in the domain, every *)
(* other word reads 0, see mem_read).  The diagnostic `text` of an         *)
(* instruction is not kept: no stage reads it.  C arrays are 0-based,      *)
(* sequences 1-based: program[PC] is cpu.program[cpu.PC + 1].              *)
(***************************************************************************)
EXTENDS Integers, Sequences, FiniteSets, TLC

\* ---------------------------------------------------------------- constants
NUM_REGS == 16
MAX_INST == 512
REG_UNUSED == -1
MEM_SIZE_WORDS == 1024
MEMORY_SIZE == 4096
REGISTER_MEMORY_BASE == 1000

\* Longest program the model loads.
MaxLen == 3

VARIABLES
    cpu,                  \* the CPU container of main
    R,                    \* file-scope int R[NUM_REGS]
    memory,               \* file-scope int memory[MEMORY_SIZE] (sparse)
    cycle,                \* main's cycle counter
    pc,                   \* position in main
    mem_res, ex_res, dec_res, fetched_inst, saved_pipeline_ID_EX,  \* main's locals
    slot,                 \* history: which program line each latch holds (0 = none)
    stalls,               \* history: number of cycles in which decode stalled
    held,                 \* history: line -> stall cycles spent held in IF/ID
    latched,              \* history: line -> cycle it entered IF/ID and ID/EX
    exlog,                \* history: line -> operands and result computed in EX
    memlog,               \* history: line -> memory index and word of its MEM step
    flow,                 \* history: line -> latch -> the cycles at whose end it entered
    before_print,         \* history: cpu, R and memory when the print phase began
    ld,                   \* program_load of test3.c: the file and the line reached
    test2,                \* src/test1/test2.c: its globals and main's locals
    prog1,                \* src/dataHazard/Prog1.c: its globals and main's locals
    fwd,                  \* src/test3/prog1.c: the CPU container and main's locals
    test1,                \* src/test1/test.c: its globals and main's locals
    pipe                  \* src/dataHazard/pipeline.c: its globals and main's locals

vars == <<cpu, R, memory, cycle, pc, mem_res, ex_res, dec_res, fetched_inst,
          saved_pipeline_ID_EX, slot, stalls, held, latched, exlog, memlog, flow,
          before_print, ld, test2, prog1, fwd, test1, pipe>>

\* The state of what is not running: each specification runs one program.
variants == <<fwd, test1, pipe>>
elsewhere == <<ld, test2, prog1, variants>>

\* ---------------------------------------------------------------- helpers
reg_valid(r) == r = REG_UNUSED \/ (r >= 0 /\ r < NUM_REGS)

\* Mutant: a NOP that is marked as a real instruction.
make_nop_marked_valid ==
    [op |-> "OP_NOOP", rd |-> REG_UNUSED, rs1 |-> REG_UNUSED, rs2 |-> REG_UNUSED,
     imm |-> 0, valid |-> 1]

make_nop ==
    [op |-> "OP_NOOP", rd |-> REG_UNUSED, rs1 |-> REG_UNUSED, rs2 |-> REG_UNUSED,
     imm |-> 0, valid |-> 0]

make_invalid_instruction == [make_nop EXCEPT !.valid = 0]

make_nop_latch ==
    [inst |-> make_nop, alu_result |-> 0, val_rs1 |-> 0, val_rs2 |-> 0,
     src_rs1 |-> "SRC_NONE", src_rs2 |-> "SRC_NONE"]

\* Mutant: MEM/WB is left as memset zeroed it (register fields 0, not -1).
init_pipeline_skipsMEMWB(c) ==
    [c EXCEPT !.pipeline_IF_ID = make_nop_latch, !.pipeline_ID_EX = make_nop_latch,
              !.pipeline_EX_MEM = make_nop_latch,
              !.pipeline_MEM_WB = [make_nop_latch EXCEPT !.inst.rd = 0,
                                                        !.inst.rs1 = 0, !.inst.rs2 = 0]]

init_pipeline(c) ==
    [c EXCEPT !.pipeline_IF_ID = make_nop_latch, !.pipeline_ID_EX = make_nop_latch,
              !.pipeline_EX_MEM = make_nop_latch, !.pipeline_MEM_WB = make_nop_latch]

\* ---------------------------------------------------------------- parsing
\* Mutant: parse_mov without the range check of the destination.
parse_mov_unchecked(rd, imm) ==
    [op |-> "OP_MOV", rd |-> rd, rs1 |-> REG_UNUSED, rs2 |-> REG_UNUSED,
     imm |-> imm, valid |-> 1]

\* The parse functions after sscanf has produced the numbers of the line.
parse_mov(rd, imm) ==
    IF rd < 0 \/ rd >= NUM_REGS THEN make_invalid_instruction
    ELSE [op |-> "OP_MOV", rd |-> rd, rs1 |-> REG_UNUSED, rs2 |-> REG_UNUSED,
          imm |-> imm, valid |-> 1]

parse_rtype(op, rd, rs1, rs2) ==
    IF rd < 0 \/ rd >= NUM_REGS THEN make_invalid_instruction
    ELSE IF rs1 < 0 \/ rs1 >= NUM_REGS THEN make_invalid_instruction
    ELSE IF rs2 < 0 \/ rs2 >= NUM_REGS THEN make_invalid_instruction
    ELSE [op |-> op, rd |-> rd, rs1 |-> rs1, rs2 |-> rs2, imm |-> 0, valid |-> 1]

parse_load(rd, off, base) ==
    IF rd < 0 \/ rd >= NUM_REGS THEN make_invalid_instruction
    ELSE IF base < 0 \/ base >= NUM_REGS THEN make_invalid_instruction
    ELSE [op |-> "OP_LOAD", rd |-> rd, rs1 |-> base, rs2 |-> REG_UNUSED,
          imm |-> off, valid |-> 1]

parse_store(rs, off, base) ==
    IF rs < 0 \/ rs >= NUM_REGS THEN make_invalid_instruction
    ELSE IF base < 0 \/ base >= NUM_REGS THEN make_invalid_instruction
    ELSE [op |-> "OP_STORE", rd |-> REG_UNUSED, rs1 |-> rs, rs2 |-> base,
          imm |-> off, valid |-> 1]

\* ---------------------------------------------------------------- ALU
\* Mutant: SUB computes b - a.
alu_execute_subSwapped(op, a, b, imm) ==
    CASE op = "OP_MOV"   -> imm
      [] op = "OP_ADD"   -> a + b
      [] op = "OP_SUB"   -> b - a
      [] op = "OP_MUL"   -> a * b
      [] op = "OP_LOAD"  -> a + imm
      [] op = "OP_STORE" -> a + imm
      [] OTHER           -> 0

alu_execute(op, a, b, imm) ==
    CASE op = "OP_MOV"   -> imm
      [] op = "OP_ADD"   -> a + b
      [] op = "OP_SUB"   -> a - b
      [] op = "OP_MUL"   -> a * b
      [] op = "OP_LOAD"  -> a + imm
      [] op = "OP_STORE" -> a + imm
      [] OTHER           -> 0

\* Mutant: the MEM/WB latch is left out of the emptiness test.
pipeline_is_empty_noWB(c) ==
    /\ c.pipeline_IF_ID.inst.valid = 0
    /\ c.pipeline_ID_EX.inst.valid = 0
    /\ c.pipeline_EX_MEM.inst.valid = 0

pipeline_is_empty(c) ==
    /\ c.pipeline_IF_ID.inst.valid = 0
    /\ c.pipeline_ID_EX.inst.valid = 0
    /\ c.pipeline_EX_MEM.inst.valid = 0
    /\ c.pipeline_MEM_WB.inst.valid = 0

\* ---------------------------------------------------------------- IF
fetch_stage(c) ==
    IF c.PC < c.inst_count THEN c.program[c.PC + 1] ELSE make_nop

\* ---------------------------------------------------------------- forwarding
\* Mutant: no forwarding path from EX/MEM.
resolve_operand_noExMem(c, reg) ==
    IF reg = -1 THEN [value |-> 0, src |-> "SRC_NONE"]
    ELSE IF /\ c.pipeline_MEM_WB.inst.valid # 0
            /\ c.pipeline_MEM_WB.inst.rd = reg
            /\ c.pipeline_MEM_WB.inst.rd # REG_UNUSED
         THEN [value |-> c.pipeline_MEM_WB.alu_result, src |-> "SRC_WB"]
    ELSE [value |-> c.R[reg], src |-> "SRC_REG"]

\* Mutant: forwarding decided by the destination index alone (no sentinel
\* return, no validity test).
resolve_operand_naive(c, reg) ==
    IF c.pipeline_EX_MEM.inst.rd = reg /\ c.pipeline_EX_MEM.inst.op # "OP_LOAD"
    THEN [value |-> c.pipeline_EX_MEM.alu_result, src |-> "SRC_MEM"]
    ELSE IF c.pipeline_MEM_WB.inst.rd = reg
    THEN [value |-> c.pipeline_MEM_WB.alu_result, src |-> "SRC_WB"]
    ELSE IF reg = -1 THEN [value |-> 0, src |-> "SRC_NONE"]
    ELSE [value |-> c.R[reg], src |-> "SRC_REG"]

\* Mutant: MEM/WB is consulted before EX/MEM.
resolve_operand_wbFirst(c, reg) ==
    IF reg = -1 THEN [value |-> 0, src |-> "SRC_NONE"]
    ELSE IF /\ c.pipeline_MEM_WB.inst.valid # 0
            /\ c.pipeline_MEM_WB.inst.rd = reg
            /\ c.pipeline_MEM_WB.inst.rd # REG_UNUSED
         THEN [value |-> c.pipeline_MEM_WB.alu_result, src |-> "SRC_WB"]
    ELSE IF /\ c.pipeline_EX_MEM.inst.valid # 0
            /\ c.pipeline_EX_MEM.inst.rd = reg
            /\ c.pipeline_EX_MEM.inst.rd # REG_UNUSED
            /\ c.pipeline_EX_MEM.inst.op # "OP_LOAD"
         THEN [value |-> c.pipeline_EX_MEM.alu_result, src |-> "SRC_MEM"]
    ELSE [value |-> c.R[reg], src |-> "SRC_REG"]

resolve_operand(c, reg) ==
    IF reg = -1 THEN [value |-> 0, src |-> "SRC_NONE"]
    ELSE IF /\ c.pipeline_EX_MEM.inst.valid # 0
            /\ c.pipeline_EX_MEM.inst.rd = reg
            /\ c.pipeline_EX_MEM.inst.rd # REG_UNUSED
            /\ c.pipeline_EX_MEM.inst.op # "OP_LOAD"
         THEN [value |-> c.pipeline_EX_MEM.alu_result, src |-> "SRC_MEM"]
    ELSE IF /\ c.pipeline_MEM_WB.inst.valid # 0
            /\ c.pipeline_MEM_WB.inst.rd = reg
            /\ c.pipeline_MEM_WB.inst.rd # REG_UNUSED
         THEN [value |-> c.pipeline_MEM_WB.alu_result, src |-> "SRC_WB"]
    ELSE [value |-> c.R[reg], src |-> "SRC_REG"]

\* ---------------------------------------------------------------- ID
\* Mutant: decode never stalls.
decode_stage_noStall(c, pipeline_IF_ID, pipeline_ID_EX) ==
    [next |-> pipeline_IF_ID, stall |-> FALSE, stall_reason |-> "NULL"]

\* Mutant: the hazard test compares the base registers but not the offsets.
decode_stage_noOffset(c, pipeline_IF_ID, pipeline_ID_EX) ==
    IF /\ pipeline_ID_EX.inst.valid # 0 /\ pipeline_ID_EX.inst.op = "OP_STORE"
       /\ pipeline_IF_ID.inst.valid # 0 /\ pipeline_IF_ID.inst.op = "OP_LOAD"
       /\ pipeline_ID_EX.inst.rs2 = pipeline_IF_ID.inst.rs1
    THEN [next |-> pipeline_IF_ID, stall |-> TRUE, stall_reason |-> "STORE->LOAD hazard (same address)"]
    ELSE [next |-> pipeline_IF_ID, stall |-> FALSE, stall_reason |-> "NULL"]

\* Mutant: decode also stalls on a register-level read-after-write dependency.
decode_stage_rawStall(c, pipeline_IF_ID, pipeline_ID_EX) ==
    IF \/ /\ pipeline_ID_EX.inst.valid # 0 /\ pipeline_ID_EX.inst.op = "OP_STORE"
          /\ pipeline_IF_ID.inst.valid # 0 /\ pipeline_IF_ID.inst.op = "OP_LOAD"
          /\ pipeline_ID_EX.inst.rs2 = pipeline_IF_ID.inst.rs1
          /\ pipeline_ID_EX.inst.imm = pipeline_IF_ID.inst.imm
       \/ /\ pipeline_ID_EX.inst.valid # 0 /\ pipeline_IF_ID.inst.valid # 0
          /\ pipeline_ID_EX.inst.rd # REG_UNUSED
          /\ pipeline_ID_EX.inst.rd \in {pipeline_IF_ID.inst.rs1, pipeline_IF_ID.inst.rs2}
    THEN [next |-> pipeline_IF_ID, stall |-> TRUE, stall_reason |-> "STORE->LOAD hazard (same address)"]
    ELSE [next |-> pipeline_IF_ID, stall |-> FALSE, stall_reason |-> "NULL"]

decode_stage(c, pipeline_IF_ID, pipeline_ID_EX) ==
    IF /\ pipeline_ID_EX.inst.valid # 0 /\ pipeline_ID_EX.inst.op = "OP_STORE"
       /\ pipeline_IF_ID.inst.valid # 0 /\ pipeline_IF_ID.inst.op = "OP_LOAD"
       /\ pipeline_ID_EX.inst.rs2 = pipeline_IF_ID.inst.rs1
       /\ pipeline_ID_EX.inst.imm = pipeline_IF_ID.inst.imm
    THEN [next |-> pipeline_IF_ID, stall |-> TRUE, stall_reason |-> "STORE->LOAD hazard (same address)"]
    ELSE [next |-> pipeline_IF_ID, stall |-> FALSE, stall_reason |-> "NULL"]

\* ---------------------------------------------------------------- EX
execute_stage(c, pipeline_ID_EX) ==
    IF pipeline_ID_EX.inst.valid = 0 \/ pipeline_ID_EX.inst.op = "OP_NOOP"
    THEN [next |-> [pipeline_ID_EX EXCEPT !.val_rs1 = 0, !.val_rs2 = 0,
                       !.src_rs1 = "SRC_NONE", !.src_rs2 = "SRC_NONE", !.alu_result = 0],
          branch_taken |-> FALSE, target_pc |-> -1, valid |-> pipeline_ID_EX.inst.valid]
    ELSE LET rs1 == resolve_operand(c, pipeline_ID_EX.inst.rs1)
             rs2 == resolve_operand(c, pipeline_ID_EX.inst.rs2)
         IN [next |-> [pipeline_ID_EX EXCEPT
                          !.val_rs1 = rs1.value, !.val_rs2 = rs2.value,
                          !.src_rs1 = rs1.src, !.src_rs2 = rs2.src,
                          !.alu_result = alu_execute(pipeline_ID_EX.inst.op, rs1.value,
                                                     rs2.value, pipeline_ID_EX.inst.imm)],
             branch_taken |-> FALSE, target_pc |-> -1, valid |-> pipeline_ID_EX.inst.valid]

\* ---------------------------------------------------------------- MEM
\* A word of a zero-initialised array kept sparsely.
mem_read(m, a) == IF a \in DOMAIN m THEN m[a] ELSE 0
mem_write(m, a, v) == [x \in DOMAIN m \cup {a} |-> IF x = a THEN v ELSE m[x]]

\* test3.c calls get_register_address and never defines it; the registers are
\* laid out from REGISTER_MEMORY_BASE on.
get_register_address(reg) == REGISTER_MEMORY_BASE + reg

\* The index memory_stage uses into memory[] for the LOAD or STORE in EX/MEM:
\* the address of the base register plus the offset.
memory_index(pipeline_EX_MEM) ==
    IF pipeline_EX_MEM.inst.op = "OP_STORE"
    THEN get_register_address(pipeline_EX_MEM.inst.rs2) + pipeline_EX_MEM.inst.imm
    ELSE get_register_address(pipeline_EX_MEM.inst.rs1) + pipeline_EX_MEM.inst.imm

\* Whether the MEM step of this latch indexes memory[] at all, and in range.
accesses_memory(pipeline_EX_MEM) ==
    /\ pipeline_EX_MEM.inst.valid # 0
    /\ pipeline_EX_MEM.inst.op \in {"OP_LOAD", "OP_STORE"}

index_in_range(pipeline_EX_MEM) ==
    memory_index(pipeline_EX_MEM) >= 0 /\ memory_index(pipeline_EX_MEM) < MEMORY_SIZE

\* Mutant: the result of an ALU instruction is not carried into MEM/WB.
memory_stage_dropsResult(c, pipeline_EX_MEM, gm, gR) ==
    IF pipeline_EX_MEM.inst.valid = 0 \/ pipeline_EX_MEM.inst.op = "OP_NOOP"
    THEN [next |-> pipeline_EX_MEM, memory |-> gm, R |-> gR]
    ELSE IF pipeline_EX_MEM.inst.op = "OP_STORE"
    THEN LET effective_address ==
                 get_register_address(pipeline_EX_MEM.inst.rs2) + pipeline_EX_MEM.inst.imm
         IN [next |-> pipeline_EX_MEM,
             memory |-> mem_write(gm, effective_address, gR[pipeline_EX_MEM.inst.rs1]),
             R |-> gR]
    ELSE IF pipeline_EX_MEM.inst.op = "OP_LOAD"
    THEN LET effective_address ==
                 get_register_address(pipeline_EX_MEM.inst.rs1) + pipeline_EX_MEM.inst.imm
         IN [next |-> pipeline_EX_MEM,
             memory |-> gm,
             R |-> [gR EXCEPT ![pipeline_EX_MEM.inst.rd] = mem_read(gm, effective_address)]]
    ELSE [next |-> [pipeline_EX_MEM EXCEPT !.alu_result = 0],
          memory |-> gm, R |-> gR]

\* Mutant: STORE takes the stored value from the register file of the CPU.
memory_stage_storesCpuR(c, pipeline_EX_MEM, gm, gR) ==
    IF pipeline_EX_MEM.inst.valid = 0 \/ pipeline_EX_MEM.inst.op = "OP_NOOP"
    THEN [next |-> pipeline_EX_MEM, memory |-> gm, R |-> gR]
    ELSE IF pipeline_EX_MEM.inst.op = "OP_STORE"
    THEN LET effective_address ==
                 get_register_address(pipeline_EX_MEM.inst.rs2) + pipeline_EX_MEM.inst.imm
         IN [next |-> pipeline_EX_MEM,
             memory |-> mem_write(gm, effective_address, c.R[pipeline_EX_MEM.inst.rs1]),
             R |-> gR]
    ELSE IF pipeline_EX_MEM.inst.op = "OP_LOAD"
    THEN LET effective_address ==
                 get_register_address(pipeline_EX_MEM.inst.rs1) + pipeline_EX_MEM.inst.imm
         IN [next |-> pipeline_EX_MEM,
             memory |-> gm,
             R |-> [gR EXCEPT ![pipeline_EX_MEM.inst.rd] = mem_read(gm, effective_address)]]
    ELSE [next |-> [pipeline_EX_MEM EXCEPT !.alu_result = pipeline_EX_MEM.alu_result],
          memory |-> gm, R |-> gR]

\* The next MEM/WB latch, and the file-scope memory[] and R[] after the stage
\* (gm and gR are their values before it).
memory_stage(c, pipeline_EX_MEM, gm, gR) ==
    IF pipeline_EX_MEM.inst.valid = 0 \/ pipeline_EX_MEM.inst.op = "OP_NOOP"
    THEN [next |-> pipeline_EX_MEM, memory |-> gm, R |-> gR]
    ELSE IF pipeline_EX_MEM.inst.op = "OP_STORE"
    THEN LET effective_address ==
                 get_register_address(pipeline_EX_MEM.inst.rs2) + pipeline_EX_MEM.inst.imm
         IN [next |-> pipeline_EX_MEM,
             memory |-> mem_write(gm, effective_address, gR[pipeline_EX_MEM.inst.rs1]),
             R |-> gR]
    ELSE IF pipeline_EX_MEM.inst.op = "OP_LOAD"
    THEN LET effective_address ==
                 get_register_address(pipeline_EX_MEM.inst.rs1) + pipeline_EX_MEM.inst.imm
         IN [next |-> pipeline_EX_MEM,
             memory |-> gm,
             R |-> [gR EXCEPT ![pipeline_EX_MEM.inst.rd] = mem_read(gm, effective_address)]]
    ELSE [next |-> [pipeline_EX_MEM EXCEPT !.alu_result = pipeline_EX_MEM.alu_result],
          memory |-> gm, R |-> gR]

\* ---------------------------------------------------------------- WB
\* Mutant: the write-back guard tests neither validity nor the sentinel, so a
\* bubble (result 0) is written over register 0.
wb_stage_unguarded(c) ==
    IF c.pipeline_MEM_WB.inst.op # "OP_STORE"
    THEN [c EXCEPT !.R[IF c.pipeline_MEM_WB.inst.rd = REG_UNUSED THEN 0
                       ELSE c.pipeline_MEM_WB.inst.rd] = c.pipeline_MEM_WB.alu_result]
    ELSE c

\* Mutant: write-back takes operand 1 of the latch instead of its result.
wb_stage_operand(c) ==
    IF /\ c.pipeline_MEM_WB.inst.valid # 0
       /\ c.pipeline_MEM_WB.inst.op # "OP_NOOP"
       /\ c.pipeline_MEM_WB.inst.rd # REG_UNUSED
    THEN [c EXCEPT !.R[c.pipeline_MEM_WB.inst.rd] = c.pipeline_MEM_WB.val_rs1]
    ELSE c

wb_stage(c) ==
    IF /\ c.pipeline_MEM_WB.inst.valid # 0
       /\ c.pipeline_MEM_WB.inst.op # "OP_NOOP"
       /\ c.pipeline_MEM_WB.inst.rd # REG_UNUSED
    THEN [c EXCEPT !.R[c.pipeline_MEM_WB.inst.rd] = c.pipeline_MEM_WB.alu_result]
    ELSE c

\* ---------------------------------------------------------------- advance
\* Mutant: a stall still overwrites IF/ID with the fetch and advances PC.
advance_pipeline_noHold(c, ex, mem, fetched, dec) ==
    [c EXCEPT
       !.pipeline_MEM_WB = mem.next,
       !.pipeline_EX_MEM = ex.next,
       !.pipeline_ID_EX = IF dec.stall THEN make_nop_latch ELSE c.pipeline_IF_ID,
       !.pipeline_IF_ID = [c.pipeline_IF_ID EXCEPT !.inst = fetched],
       !.PC = IF c.PC < c.inst_count THEN c.PC + 1 ELSE c.PC]

\* Mutant: on a stall ID/EX keeps the held instruction, only marked invalid.
advance_pipeline_softBubble(c, ex, mem, fetched, dec) ==
    [c EXCEPT
       !.pipeline_MEM_WB = mem.next,
       !.pipeline_EX_MEM = ex.next,
       !.pipeline_ID_EX = IF dec.stall
                          THEN [c.pipeline_IF_ID EXCEPT !.inst.valid = 0]
                          ELSE c.pipeline_IF_ID,
       !.pipeline_IF_ID = IF dec.stall THEN c.pipeline_IF_ID
                          ELSE [c.pipeline_IF_ID EXCEPT !.inst = fetched],
       !.PC = IF ~dec.stall /\ c.PC < c.inst_count THEN c.PC + 1 ELSE c.PC]

\* Mutant: the program counter advances in a stall cycle too.
advance_pipeline_pcOnStall(c, ex, mem, fetched, dec) ==
    [c EXCEPT
       !.pipeline_MEM_WB = mem.next,
       !.pipeline_EX_MEM = ex.next,
       !.pipeline_ID_EX = IF dec.stall THEN make_nop_latch ELSE c.pipeline_IF_ID,
       !.pipeline_IF_ID = IF dec.stall THEN c.pipeline_IF_ID
                          ELSE [c.pipeline_IF_ID EXCEPT !.inst = fetched],
       !.PC = IF c.PC < c.inst_count THEN c.PC + 1 ELSE c.PC]

advance_pipeline(c, ex, mem, fetched, dec) ==
    [c EXCEPT
       !.pipeline_MEM_WB = mem.next,
       !.pipeline_EX_MEM = ex.next,
       !.pipeline_ID_EX = IF dec.stall THEN make_nop_latch ELSE c.pipeline_IF_ID,
       !.pipeline_IF_ID = IF dec.stall THEN c.pipeline_IF_ID
                          ELSE [c.pipeline_IF_ID EXCEPT !.inst = fetched],
       !.PC = IF ~dec.stall /\ c.PC < c.inst_count THEN c.PC + 1 ELSE c.PC]

\* ---------------------------------------------------------------- programs
\* The lines the model loads programs from.
Pool ==
    { parse_mov(0, 2), parse_mov(1, 5),
      parse_rtype("OP_ADD", 2, 1, 1), parse_rtype("OP_MUL", 3, 2, 1),
      parse_rtype("OP_SUB", 1, 2, 1),
      parse_store(1, 0, 0), parse_load(2, 0, 0), parse_load(2, 8, 0),
      parse_load(3, 0, 1) }

Programs == UNION { [1..n -> Pool] : n \in 0..MaxLen }

\* History: the latches, a line that has entered no latch yet, and the record
\* of the lines that entered the latches `into` at the end of cycle c (s is the
\* occupancy after the step).
LatchNames == {"IF_ID", "ID_EX", "EX_MEM", "MEM_WB"}
NoEntries == [L \in LatchNames |-> <<>>]
Entered(f, s, into, c) ==
    [k \in DOMAIN f |->
        [L \in LatchNames |->
            IF L \in into /\ s[L] = k THEN Append(f[k][L], c) ELSE f[k][L]]]

\* main up to init_pipeline: memset, the zeroing loops, program_load.
InitCPU(prog) ==
    init_pipeline(
        [R |-> [i \in 0..(NUM_REGS - 1) |-> 0],
         program |-> prog,
         inst_count |-> Len(prog),
         PC |-> 0,
         memory |-> <<>>,
         pipeline_IF_ID |-> make_nop_latch, pipeline_ID_EX |-> make_nop_latch,
         pipeline_EX_MEM |-> make_nop_latch, pipeline_MEM_WB |-> make_nop_latch])

Init ==
    /\ \E prog \in Programs : cpu = InitCPU(prog)
    /\ R = [i \in 0..(NUM_REGS - 1) |-> 0]
    /\ memory = <<>>
    /\ cycle = 1
    /\ pc = "prime"
    /\ mem_res = [next |-> make_nop_latch]
    /\ ex_res = execute_stage(InitCPU(<<>>), make_nop_latch)
    /\ dec_res = decode_stage(InitCPU(<<>>), make_nop_latch, make_nop_latch)
    /\ fetched_inst = make_nop
    /\ saved_pipeline_ID_EX = make_nop_latch
    /\ slot = [IF_ID |-> 0, ID_EX |-> 0, EX_MEM |-> 0, MEM_WB |-> 0]
    /\ stalls = 0
    /\ held = <<>>
    /\ latched = <<>>
    /\ exlog = <<>>
    /\ memlog = <<>>
    /\ flow = [k \in 1..cpu.inst_count |-> NoEntries]
    /\ before_print = <<>>
    /\ ld = "loaded" /\ test2 = "off" /\ prog1 = "off"
    /\ fwd = "off" /\ test1 = "off" /\ pipe = "off"

locals == <<mem_res, ex_res, dec_res, fetched_inst, saved_pipeline_ID_EX>>
history == <<slot, stalls, held, latched, exlog, memlog, flow>>

\* main: the priming fetch before the loop.
Prime ==
    /\ pc = "prime"
    /\ cpu' = [cpu EXCEPT !.pipeline_IF_ID.inst = fetch_stage(cpu), !.PC = cpu.PC + 1]
    /\ slot' = [slot EXCEPT !.IF_ID = IF cpu.PC < cpu.inst_count THEN cpu.PC + 1 ELSE 0]
    /\ latched' = IF cpu.PC < cpu.inst_count
                  THEN (cpu.PC + 1) :> [ifid |-> 0, idex |-> -1]
                  ELSE latched
    /\ held' = IF cpu.PC < cpu.inst_count THEN (cpu.PC + 1) :> 0 ELSE held
    /\ flow' = Entered(flow, slot', {"IF_ID"}, 0)
    /\ pc' = "test"
    /\ UNCHANGED <<before_print, elsewhere, R, memory, cycle, locals, stalls, exlog, memlog>>

\* main: while (cpu.PC < cpu.inst_count || !pipeline_is_empty(&cpu))
LoopEnter ==
    /\ pc = "test"
    /\ cpu.PC < cpu.inst_count \/ ~pipeline_is_empty(cpu)
    /\ pc' = "wb"
    /\ UNCHANGED <<before_print, elsewhere, cpu, R, memory, cycle, locals, history>>

LoopExit ==
    /\ pc = "test"
    /\ ~(cpu.PC < cpu.inst_count \/ ~pipeline_is_empty(cpu))
    /\ pc' = "done"
    /\ UNCHANGED <<before_print, elsewhere, cpu, R, memory, cycle, locals, history>>

WB ==
    /\ pc = "wb"
    /\ cpu' = wb_stage(cpu)
    /\ pc' = "mem"
    /\ UNCHANGED <<before_print, elsewhere, R, memory, cycle, locals, history>>

MEM ==
    /\ pc = "mem"
    /\ accesses_memory(cpu.pipeline_EX_MEM) => index_in_range(cpu.pipeline_EX_MEM)
    /\ LET r == memory_stage(cpu, cpu.pipeline_EX_MEM, memory, R)
       IN /\ mem_res' = [next |-> r.next]
          /\ memory' = r.memory
          /\ R' = r.R
    /\ memlog' = IF accesses_memory(cpu.pipeline_EX_MEM)
                 THEN (slot.EX_MEM :>
                         [index |-> memory_index(cpu.pipeline_EX_MEM),
                          word |-> mem_read(memory', memory_index(cpu.pipeline_EX_MEM)),
                          result |-> mem_res'.next.alu_result])
                      @@ memlog
                 ELSE memlog
    /\ pc' = "ex"
    /\ UNCHANGED <<before_print, elsewhere, cpu, cycle, ex_res, dec_res, fetched_inst, saved_pipeline_ID_EX,
                   slot, stalls, held, latched, exlog, flow>>

\* The MEM step of a LOAD or STORE whose index lies outside memory[]: the
\* behaviour is undefined.  The run is killed, or it goes on: a STORE has
\* written outside the array, a LOAD has read whatever word lies there.
UBWords == {0, 1}

MemOutOfRange ==
    /\ pc = "mem"
    /\ accesses_memory(cpu.pipeline_EX_MEM) /\ ~index_in_range(cpu.pipeline_EX_MEM)
    /\ mem_res' = [next |-> cpu.pipeline_EX_MEM]
    /\ memory' = memory
    /\ \/ /\ pc' = "killed"
          /\ R' = R
       \/ /\ pc' = "ex"
          /\ IF cpu.pipeline_EX_MEM.inst.op = "OP_LOAD"
             THEN \E w \in UBWords : R' = [R EXCEPT ![cpu.pipeline_EX_MEM.inst.rd] = w]
             ELSE R' = R
    /\ memlog' = (slot.EX_MEM :> [index |-> memory_index(cpu.pipeline_EX_MEM),
                                  word |-> 0,
                                  result |-> cpu.pipeline_EX_MEM.alu_result]) @@ memlog
    /\ UNCHANGED <<before_print, elsewhere, cpu, cycle, ex_res, dec_res, fetched_inst, saved_pipeline_ID_EX,
                   slot, stalls, held, latched, exlog, flow>>

EX ==
    /\ pc = "ex"
    /\ ex_res' = execute_stage(cpu, cpu.pipeline_ID_EX)
    /\ exlog' = IF cpu.pipeline_ID_EX.inst.valid # 0
                THEN (slot.ID_EX :> [val_rs1 |-> ex_res'.next.val_rs1,
                                     val_rs2 |-> ex_res'.next.val_rs2,
                                     alu_result |-> ex_res'.next.alu_result]) @@ exlog
                ELSE exlog
    /\ pc' = "id"
    /\ UNCHANGED <<before_print, elsewhere, cpu, R, memory, cycle, mem_res, dec_res, fetched_inst,
                   saved_pipeline_ID_EX, slot, stalls, held, latched, memlog, flow>>

ID ==
    /\ pc = "id"
    /\ dec_res' = decode_stage(cpu, cpu.pipeline_IF_ID, cpu.pipeline_ID_EX)
    /\ pc' = "if"
    /\ UNCHANGED <<before_print, elsewhere, cpu, R, memory, cycle, mem_res, ex_res, fetched_inst,
                   saved_pipeline_ID_EX, history>>

IF_ ==
    /\ pc = "if"
    /\ fetched_inst' = fetch_stage(cpu)
    /\ pc' = "print"
    /\ UNCHANGED <<before_print, elsewhere, cpu, R, memory, cycle, mem_res, ex_res, dec_res,
                   saved_pipeline_ID_EX, history>>

\* main, phase 2: ID/EX shows the EX result while the cycle is printed.
PrintSave ==
    /\ pc = "print"
    /\ saved_pipeline_ID_EX' = cpu.pipeline_ID_EX
    /\ cpu' = [cpu EXCEPT !.pipeline_ID_EX = ex_res.next]
    /\ before_print' = <<cpu, R, memory>>
    /\ pc' = "restore"
    /\ UNCHANGED <<elsewhere, R, memory, cycle, mem_res, ex_res, dec_res, fetched_inst, history>>

\* Mutant: the ID/EX latch is not restored after printing.
PrintRestore_skipped ==
    /\ pc = "restore"
    /\ pc' = "adv"
    /\ UNCHANGED <<cpu, before_print, elsewhere, R, memory, cycle, locals, history>>

PrintRestore ==
    /\ pc = "restore"
    /\ cpu' = [cpu EXCEPT !.pipeline_ID_EX = saved_pipeline_ID_EX]
    /\ pc' = "adv"
    /\ UNCHANGED <<before_print, elsewhere, R, memory, cycle, locals, history>>

\* main, phase 3: advance_pipeline and cycle++.
Advance ==
    /\ pc = "adv"
    /\ cpu' = advance_pipeline(cpu, ex_res, mem_res, fetched_inst, dec_res)
    /\ cycle' = cycle + 1
    /\ LET admitted == IF cpu.PC < cpu.inst_count THEN cpu.PC + 1 ELSE 0
       IN IF dec_res.stall
          THEN /\ slot' = [MEM_WB |-> slot.EX_MEM, EX_MEM |-> slot.ID_EX,
                           ID_EX |-> 0, IF_ID |-> slot.IF_ID]
               /\ held' = IF slot.IF_ID # 0
                          THEN [held EXCEPT ![slot.IF_ID] = @ + 1]
                          ELSE held
               /\ latched' = latched
          ELSE /\ slot' = [MEM_WB |-> slot.EX_MEM, EX_MEM |-> slot.ID_EX,
                           ID_EX |-> slot.IF_ID, IF_ID |-> admitted]
               /\ held' = IF admitted # 0 THEN (admitted :> 0) @@ held ELSE held
               /\ latched' =
                    LET a == IF slot.IF_ID # 0
                             THEN [latched EXCEPT ![slot.IF_ID].idex = cycle]
                             ELSE latched
                    IN IF admitted # 0
                       THEN (admitted :> [ifid |-> cycle, idex |-> -1]) @@ a
                       ELSE a
    /\ stalls' = IF dec_res.stall THEN stalls + 1 ELSE stalls
    /\ flow' = Entered(flow, slot',
                       IF dec_res.stall THEN {"EX_MEM", "MEM_WB"} ELSE LatchNames, cycle)
    /\ pc' = "test"
    /\ UNCHANGED <<before_print, elsewhere, R, memory, locals, exlog, memlog>>

Next ==
    \/ Prime \/ LoopEnter \/ LoopExit
    \/ WB \/ MEM \/ EX \/ ID \/ IF_ \/ PrintSave \/ PrintRestore \/ Advance

Spec == Init /\ [][Next]_vars

\* The loop of main runs on: every step that can be taken is taken.
FairSpec == Spec /\ WF_vars(Next)

\* Programs whose LOAD/STORE offsets the parser accepts (any integer) and that
\* take the memory index out of memory[].
PoolOutOfRange ==
    { parse_mov(1, 5), parse_store(1, 0, 0), parse_load(2, 8, 0),
      parse_load(2, 4000, 0), parse_store(1, -2000, 1) }

InitOutOfRange ==
    /\ \E prog \in UNION { [1..n -> PoolOutOfRange] : n \in 0..MaxLen } :
          cpu = InitCPU(prog)
    /\ R = [i \in 0..(NUM_REGS - 1) |-> 0]
    /\ memory = <<>>
    /\ cycle = 1
    /\ pc = "prime"
    /\ mem_res = [next |-> make_nop_latch]
    /\ ex_res = execute_stage(InitCPU(<<>>), make_nop_latch)
    /\ dec_res = decode_stage(InitCPU(<<>>), make_nop_latch, make_nop_latch)
    /\ fetched_inst = make_nop
    /\ saved_pipeline_ID_EX = make_nop_latch
    /\ slot = [IF_ID |-> 0, ID_EX |-> 0, EX_MEM |-> 0, MEM_WB |-> 0]
    /\ stalls = 0
    /\ held = <<>>
    /\ latched = <<>>
    /\ exlog = <<>>
    /\ memlog = <<>>
    /\ flow = [k \in 1..cpu.inst_count |-> NoEntries]
    /\ before_print = <<>>
    /\ ld = "loaded" /\ test2 = "off" /\ prog1 = "off"
    /\ fwd = "off" /\ test1 = "off" /\ pipe = "off"

NextOutOfRange == Next \/ MemOutOfRange

SpecOutOfRange == InitOutOfRange /\ [][NextOutOfRange]_vars

\* ================================================================ claims
Lines == 1..cpu.inst_count
Line(k) == cpu.program[k]

IsALU(i) == i.op \in {"OP_MOV", "OP_ADD", "OP_SUB", "OP_MUL"}

LatchesAllBubbles ==
    /\ cpu.pipeline_IF_ID.inst.valid = 0
    /\ cpu.pipeline_ID_EX.inst.valid = 0
    /\ cpu.pipeline_EX_MEM.inst.valid = 0
    /\ cpu.pipeline_MEM_WB.inst.valid = 0

AllZero ==
    /\ \A i \in 0..(NUM_REGS - 1) : cpu.R[i] = 0 /\ R[i] = 0
    /\ \A a \in DOMAIN memory : memory[a] = 0
    /\ \A a \in DOMAIN cpu.memory : cpu.memory[a] = 0

\* Line k is a STORE and line k+1 a LOAD with the same base register and offset.
StoreLoadPair(k) ==
    /\ k \in Lines /\ k + 1 \in Lines
    /\ Line(k).op = "OP_STORE" /\ Line(k + 1).op = "OP_LOAD"
    /\ Line(k).rs2 = Line(k + 1).rs1
    /\ Line(k).imm = Line(k + 1).imm

\* ---------------------------------------------------------------- C1
\* C1 as stated: when main has left the loop, the reported cycle count
\* (cycle - 1) is N + 4 + S, with N the program length and S the number of
\* stall cycles.
DrainOriginal ==
    pc = "done" => cycle - 1 = cpu.inst_count + 4 + stalls

\* C1, amended: the priming fetch before the loop takes the place of the
\* first cycle, so the loop runs N + 3 + S cycles for N >= 1 and no cycle
\* at all for N = 0.
DrainCycles ==
    pc = "done" =>
        cycle - 1 = IF cpu.inst_count = 0 THEN 0 ELSE cpu.inst_count + 3 + stalls

DrainWitness == pc = "done" /\ cpu.inst_count >= 2 /\ stalls >= 1

\* ---------------------------------------------------------------- C2
\* C2 as stated: the empty program ends after exactly 4 cycles with every
\* register and memory word still zero.
BoundaryOriginal ==
    (pc = "done" /\ cpu.inst_count = 0) => (cycle - 1 = 4 /\ AllZero)

\* C2, amended: the empty program never enters the loop: it ends after 0
\* cycles, and every register and memory word is zero throughout.
EmptyProgram ==
    cpu.inst_count = 0 =>
        /\ pc \in {"prime", "test", "done"}
        /\ cycle - 1 = 0
        /\ AllZero

EmptyProgramWitness == pc = "done" /\ cpu.inst_count = 0

\* ---------------------------------------------------------------- C3
ForwardingExample ==
    << parse_mov(1, 5), parse_rtype("OP_ADD", 2, 1, 1), parse_rtype("OP_MUL", 3, 2, 1) >>

\* C3: when line k is a MOV/ADD/SUB/MUL and line k+1 reads its destination,
\* the operand line k+1 uses in EX is the result line k computed in EX, line
\* k+1 is never held by a stall and enters ID/EX one cycle after line k; the
\* example program ends with R2 = 10, R3 = 50 and no stall.
ForwardingCorrect ==
    /\ \A k \in Lines :
         (k + 1 \in Lines /\ IsALU(Line(k))
            /\ Line(k).rd \in {Line(k + 1).rs1, Line(k + 1).rs2}) =>
           /\ (k + 1 \in DOMAIN exlog) =>
                /\ Line(k + 1).rs1 = Line(k).rd =>
                      exlog[k + 1].val_rs1 = exlog[k].alu_result
                /\ Line(k + 1).rs2 = Line(k).rd =>
                      exlog[k + 1].val_rs2 = exlog[k].alu_result
           /\ (k + 1 \in DOMAIN held) => held[k + 1] = 0
           /\ (k + 1 \in DOMAIN latched /\ latched[k + 1].idex # -1) =>
                latched[k + 1].idex = latched[k].idex + 1
    /\ (pc = "done" /\ cpu.program = ForwardingExample) =>
           cpu.R[1] = 5 /\ cpu.R[2] = 10 /\ cpu.R[3] = 50 /\ stalls = 0

ForwardingWitness ==
    /\ pc = "done" /\ cpu.program = ForwardingExample
    /\ exlog[3].val_rs1 = 10 /\ exlog[3].val_rs2 = 5

\* ---------------------------------------------------------------- C4
\* C4: the LOAD of a STORE/LOAD pair on the same base register and offset is
\* held in IF/ID by exactly one stall cycle: never more than one, and once it
\* has entered ID/EX it has been held exactly once, two cycles after it
\* entered IF/ID and two cycles after the STORE entered ID/EX; and it does
\* enter ID/EX before the run ends.
StoreLoadStallsOnce ==
    \A k \in Lines : StoreLoadPair(k) =>
        /\ (k + 1 \in DOMAIN held) => held[k + 1] <= 1
        /\ (k + 1 \in DOMAIN latched /\ latched[k + 1].idex # -1) =>
              /\ held[k + 1] = 1
              /\ latched[k + 1].idex = latched[k + 1].ifid + 2
              /\ latched[k + 1].idex = latched[k].idex + 2
        /\ pc = "done" => (k + 1 \in DOMAIN latched /\ latched[k + 1].idex # -1)

StoreLoadWitness ==
    pc = "done" /\ \E k \in Lines : StoreLoadPair(k) /\ held[k + 1] = 1

\* ---------------------------------------------------------------- C5
\* C5: after the run, the destination of the LOAD of a same-address STORE/LOAD
\* pair (when no later line writes that register) holds the data value that
\* was resolved for the STORE.
LoadedEqualsStored ==
    pc = "done" =>
        \A k \in Lines :
            (StoreLoadPair(k)
               /\ \A j \in Lines : j > k + 1 => Line(j).rd # Line(k + 1).rd) =>
                cpu.R[Line(k + 1).rd] = exlog[k].val_rs1

\* ---------------------------------------------------------------- C6
IndependentPair ==
    /\ cpu.pipeline_ID_EX.inst.valid # 0 /\ cpu.pipeline_ID_EX.inst.op = "OP_STORE"
    /\ cpu.pipeline_IF_ID.inst.valid # 0 /\ cpu.pipeline_IF_ID.inst.op = "OP_LOAD"
    /\ \/ cpu.pipeline_ID_EX.inst.rs2 # cpu.pipeline_IF_ID.inst.rs1
       \/ cpu.pipeline_ID_EX.inst.imm # cpu.pipeline_IF_ID.inst.imm

\* C6: in a cycle whose ID/EX holds a STORE and whose IF/ID holds a LOAD with
\* a different base register or offset, decode does not stall and the latch
\* update moves the LOAD from IF/ID into ID/EX.
IndependentNoStall ==
    [][ (pc = "adv" /\ IndependentPair) =>
            /\ ~dec_res.stall
            /\ cpu'.pipeline_ID_EX = cpu.pipeline_IF_ID
            /\ cpu'.pipeline_ID_EX.inst.op = "OP_LOAD"
            /\ stalls' = stalls ]_vars

IndependentWitness ==
    /\ pc = "adv" /\ IndependentPair
    /\ cpu.pipeline_ID_EX.inst.rs2 = cpu.pipeline_IF_ID.inst.rs1

\* ---------------------------------------------------------------- C7
\* C7: a MEM step whose EX/MEM latch is a bubble changes no memory word and
\* no register, and a WB step whose MEM/WB latch is a bubble changes no
\* register (and no memory word).
BubbleWritesNothing ==
    [][ /\ (pc = "mem" /\ cpu.pipeline_EX_MEM.inst.valid = 0) =>
              /\ memory' = memory /\ R' = R
              /\ cpu'.R = cpu.R /\ cpu'.memory = cpu.memory
        /\ (pc = "wb" /\ cpu.pipeline_MEM_WB.inst.valid = 0) =>
              /\ cpu'.R = cpu.R /\ R' = R
              /\ memory' = memory /\ cpu'.memory = cpu.memory ]_vars

\* The bubble a stall inserted has reached MEM/WB (the held LOAD is behind it)
\* and some register is not zero.
BubbleWitness ==
    /\ pc = "wb" /\ cpu.pipeline_MEM_WB.inst.valid = 0
    /\ slot.EX_MEM # 0 /\ held[slot.EX_MEM] = 1
    /\ \E i \in 0..(NUM_REGS - 1) : cpu.R[i] # 0

\* ---------------------------------------------------------------- C8
RegIndexes == (-1)..(NUM_REGS - 1)

\* C8: decode never stalls on a bubble in ID/EX, and for no register index
\* (the sentinel -1 included) does resolve_operand forward from an EX/MEM or
\* MEM/WB latch that holds a bubble.
BubbleNoHazard ==
    /\ cpu.pipeline_ID_EX.inst.valid = 0 =>
          /\ ~decode_stage(cpu, cpu.pipeline_IF_ID, cpu.pipeline_ID_EX).stall
          /\ pc \in {"if", "print", "restore", "adv"} => ~dec_res.stall
    /\ \A reg \in RegIndexes :
          /\ cpu.pipeline_EX_MEM.inst.valid = 0 =>
                resolve_operand(cpu, reg).src # "SRC_MEM"
          /\ cpu.pipeline_MEM_WB.inst.valid = 0 =>
                resolve_operand(cpu, reg).src # "SRC_WB"
          /\ (cpu.pipeline_EX_MEM.inst.valid = 0 /\ cpu.pipeline_MEM_WB.inst.valid = 0) =>
                resolve_operand(cpu, reg).value = IF reg = -1 THEN 0 ELSE cpu.R[reg]

\* The held LOAD is in EX right behind the bubble its stall inserted.
BubbleNoHazardWitness ==
    /\ pc = "ex" /\ cpu.pipeline_EX_MEM.inst.valid = 0
    /\ cpu.pipeline_ID_EX.inst.valid # 0
    /\ slot.ID_EX # 0 /\ held[slot.ID_EX] = 1

\* ---------------------------------------------------------------- C9
\* C9: the loop is eventually left; when it has been left PC has reached the
\* end of the program and all four latches hold bubbles; and the loop test
\* leaves the loop exactly in that case.
Termination ==
    /\ <>(pc = "done")
    /\ [](pc = "done" => (cpu.PC >= cpu.inst_count /\ LatchesAllBubbles))
    /\ [][ pc = "test" =>
             (pc' = "done" <=> (cpu.PC >= cpu.inst_count /\ LatchesAllBubbles)) ]_vars

TerminationWitness == pc = "done" /\ cpu.inst_count >= 2 /\ stalls >= 1 /\ cycle > 5

\* ---------------------------------------------------------------- C10
\* The result C10 states for a register index.
ResolveStated(reg) ==
    IF reg = REG_UNUSED THEN [value |-> 0, src |-> "SRC_NONE"]
    ELSE IF /\ cpu.pipeline_EX_MEM.inst.valid # 0
            /\ cpu.pipeline_EX_MEM.inst.rd = reg
            /\ cpu.pipeline_EX_MEM.inst.op # "OP_LOAD"
         THEN [value |-> cpu.pipeline_EX_MEM.alu_result, src |-> "SRC_MEM"]
    ELSE IF cpu.pipeline_MEM_WB.inst.valid # 0 /\ cpu.pipeline_MEM_WB.inst.rd = reg
         THEN [value |-> cpu.pipeline_MEM_WB.alu_result, src |-> "SRC_WB"]
    ELSE [value |-> cpu.R[reg], src |-> "SRC_REG"]

\* C10: for every register index, resolve_operand returns (0, NONE) for the
\* sentinel, else the EX/MEM result when EX/MEM holds a valid non-LOAD writer
\* of the register, else the MEM/WB result when MEM/WB holds a valid writer
\* of it, else the register-file value; a LOAD in EX/MEM is never forwarded.
ResolveAsStated ==
    \A reg \in RegIndexes :
        /\ resolve_operand(cpu, reg) = ResolveStated(reg)
        /\ (cpu.pipeline_EX_MEM.inst.valid # 0 /\ cpu.pipeline_EX_MEM.inst.op = "OP_LOAD")
              => resolve_operand(cpu, reg).src # "SRC_MEM"

\* EX/MEM and MEM/WB both hold a writer of the register ID/EX reads, with
\* different results, and EX resolves it.
ResolveWitness ==
    /\ pc = "ex"
    /\ cpu.pipeline_ID_EX.inst.valid # 0 /\ cpu.pipeline_ID_EX.inst.rs1 # REG_UNUSED
    /\ cpu.pipeline_EX_MEM.inst.valid # 0 /\ cpu.pipeline_EX_MEM.inst.op # "OP_LOAD"
    /\ cpu.pipeline_EX_MEM.inst.rd = cpu.pipeline_ID_EX.inst.rs1
    /\ cpu.pipeline_MEM_WB.inst.valid # 0
    /\ cpu.pipeline_MEM_WB.inst.rd = cpu.pipeline_ID_EX.inst.rs1
    /\ cpu.pipeline_MEM_WB.alu_result # cpu.pipeline_EX_MEM.alu_result

\* ---------------------------------------------------------------- C11
\* Line k is a LOAD and line k+1 reads its destination register.
LoadUsePair(k) ==
    /\ k \in Lines /\ k + 1 \in Lines
    /\ Line(k).op = "OP_LOAD"
    /\ Line(k).rd \in {Line(k + 1).rs1, Line(k + 1).rs2}

\* C11: the line right after a LOAD that reads the LOAD's destination gets,
\* as its resolved operand, the value the LOAD loads (the word its MEM step
\* read, or the result its MEM step hands to write-back), and is not held by
\* a stall.
LoadUseCorrect ==
    \A k \in Lines : LoadUsePair(k) =>
        /\ (k + 1 \in DOMAIN exlog) =>
              /\ k \in DOMAIN memlog
              /\ Line(k + 1).rs1 = Line(k).rd =>
                    exlog[k + 1].val_rs1 \in {memlog[k].word, memlog[k].result}
              /\ Line(k + 1).rs2 = Line(k).rd =>
                    exlog[k + 1].val_rs2 \in {memlog[k].word, memlog[k].result}
        /\ (k + 1 \in DOMAIN held) => held[k + 1] = 0

\* ---------------------------------------------------------------- C12
\* C12: right after the MEM step of a LOAD, the index the step used is the
\* effective address EX computed (the EX/MEM result), and the result it
\* hands to MEM/WB is the memory word at that address.
LoadResultIsWord ==
    (pc = "ex" /\ cpu.pipeline_EX_MEM.inst.valid # 0
       /\ cpu.pipeline_EX_MEM.inst.op = "OP_LOAD") =>
        /\ memlog[slot.EX_MEM].index = cpu.pipeline_EX_MEM.alu_result
        /\ mem_res.next.alu_result = mem_read(memory, cpu.pipeline_EX_MEM.alu_result)

\* ---------------------------------------------------------------- C13
\* C13: right after the MEM step of a STORE, the memory word at the effective
\* address (the EX/MEM result, the resolved base plus the offset, or the
\* index the step used) is the data value resolved for the STORE in EX.
StoreWritesResolved ==
    (pc = "ex" /\ cpu.pipeline_EX_MEM.inst.valid # 0
       /\ cpu.pipeline_EX_MEM.inst.op = "OP_STORE") =>
        \E a \in { cpu.pipeline_EX_MEM.alu_result,
                   cpu.pipeline_EX_MEM.val_rs2 + cpu.pipeline_EX_MEM.inst.imm,
                   memory_index(cpu.pipeline_EX_MEM) } :
            mem_read(memory, a) = cpu.pipeline_EX_MEM.val_rs1

\* ---------------------------------------------------------------- C14
WritesBack ==
    /\ cpu.pipeline_MEM_WB.inst.valid # 0
    /\ cpu.pipeline_MEM_WB.inst.op # "OP_NOOP"
    /\ cpu.pipeline_MEM_WB.inst.rd # REG_UNUSED

\* C14: the WB step of every cycle sets R[rd] to the MEM/WB result, and
\* nothing else, when MEM/WB holds a valid non-NOP instruction with a
\* destination; otherwise, and always for a STORE, it leaves the register
\* file as it was.
WriteBackExact ==
    [][ pc = "wb" =>
          /\ WritesBack =>
                cpu'.R = [cpu.R EXCEPT ![cpu.pipeline_MEM_WB.inst.rd] =
                                           cpu.pipeline_MEM_WB.alu_result]
          /\ ~WritesBack => cpu'.R = cpu.R
          /\ cpu.pipeline_MEM_WB.inst.op = "OP_STORE" => cpu'.R = cpu.R ]_vars

\* A write-back that changes a register, with operand 1 unlike the result.
WriteBackWitness ==
    /\ pc = "wb" /\ WritesBack
    /\ cpu.pipeline_MEM_WB.alu_result # cpu.R[cpu.pipeline_MEM_WB.inst.rd]
    /\ cpu.pipeline_MEM_WB.alu_result # cpu.pipeline_MEM_WB.val_rs1

\* ---------------------------------------------------------------- C15
\* C15: the EX result of a LOAD is its resolved base register (rs1) plus the
\* offset, and the EX result of a STORE is its resolved base register (rs2,
\* not the data register rs1) plus the offset.
EffectiveAddress ==
    \A k \in DOMAIN exlog :
        /\ Line(k).op = "OP_LOAD" =>
              exlog[k].alu_result = exlog[k].val_rs1 + Line(k).imm
        /\ Line(k).op = "OP_STORE" =>
              exlog[k].alu_result = exlog[k].val_rs2 + Line(k).imm

\* ---------------------------------------------------------------- C16
\* The stated stall condition on the two latches decode looks at.
HazardStated ==
    /\ cpu.pipeline_ID_EX.inst.valid # 0 /\ cpu.pipeline_ID_EX.inst.op = "OP_STORE"
    /\ cpu.pipeline_IF_ID.inst.valid # 0 /\ cpu.pipeline_IF_ID.inst.op = "OP_LOAD"
    /\ cpu.pipeline_ID_EX.inst.rs2 = cpu.pipeline_IF_ID.inst.rs1
    /\ cpu.pipeline_ID_EX.inst.imm = cpu.pipeline_IF_ID.inst.imm

\* The instruction in IF/ID reads the register the instruction in ID/EX writes.
RawDependency ==
    /\ cpu.pipeline_ID_EX.inst.valid # 0 /\ cpu.pipeline_IF_ID.inst.valid # 0
    /\ cpu.pipeline_ID_EX.inst.rd # REG_UNUSED
    /\ cpu.pipeline_ID_EX.inst.rd \in {cpu.pipeline_IF_ID.inst.rs1,
                                       cpu.pipeline_IF_ID.inst.rs2}

IdExAfterCycle ==
    [][ /\ pc \in {"wb", "mem", "ex", "id", "if", "print", "restore"} =>
              cpu'.pipeline_IF_ID = cpu.pipeline_IF_ID
        /\ pc = "adv" =>
              cpu'.pipeline_ID_EX = IF dec_res.stall THEN make_nop_latch
                                    ELSE cpu.pipeline_IF_ID ]_vars

\* A stall cycle has just ended: ID/EX is the bubble, the LOAD waits in IF/ID.
IdExAfterCycleWitness ==
    /\ pc = "test" /\ stalls > 0 /\ slot.ID_EX = 0 /\ slot.IF_ID # 0
    /\ cpu.pipeline_ID_EX = make_nop_latch
    /\ cpu.pipeline_IF_ID.inst.op = "OP_LOAD"

\* ---------------------------------------------------------------- C18
\* C18: the advance of a stall cycle leaves IF/ID and PC as they were, admits
\* no line (the fetched instruction is dropped), and still latches the EX
\* result into EX/MEM and the MEM result into MEM/WB.
StallFrame ==
    [][ (pc = "adv" /\ dec_res.stall) =>
          /\ cpu'.pipeline_IF_ID = cpu.pipeline_IF_ID
          /\ cpu'.PC = cpu.PC
          /\ latched' = latched
          /\ slot'.IF_ID = slot.IF_ID
          /\ cpu'.pipeline_EX_MEM = ex_res.next
          /\ cpu'.pipeline_MEM_WB = mem_res.next ]_vars

\* A stall cycle has just ended with a line still to fetch: the STORE has
\* moved on to EX/MEM and the fetched line was not admitted.
StallFrameWitness ==
    /\ pc = "test" /\ stalls > 0 /\ slot.ID_EX = 0 /\ slot.IF_ID # 0
    /\ cpu.PC < cpu.inst_count
    /\ fetched_inst.valid # 0
    /\ cpu.pipeline_EX_MEM.inst.valid # 0
    /\ cpu.pipeline_EX_MEM.inst.op = "OP_STORE"

\* ---------------------------------------------------------------- C19
\* C19: in every reachable state PC is the number of program lines admitted
\* into IF/ID so far.
PcCountsAdmitted ==
    cpu.PC = Cardinality(DOMAIN latched)

\* ---------------------------------------------------------------- C20
\* C20: every index the MEM step is about to use for a LOAD or STORE lies
\* within [0, MEMORY_SIZE).
MemoryInBounds ==
    (pc = "mem" /\ accesses_memory(cpu.pipeline_EX_MEM)) =>
        /\ memory_index(cpu.pipeline_EX_MEM) >= 0
        /\ memory_index(cpu.pipeline_EX_MEM) < MEMORY_SIZE

\* ---------------------------------------------------------------- C21
\* The assert of fetch_stage and of advance_pipeline.
pc_in_range(c) == c.PC >= 0 /\ c.PC <= c.inst_count

\* The three asserts of execute_stage, reached for a valid non-NOP latch.
execute_asserts(pipeline_ID_EX) ==
    (pipeline_ID_EX.inst.valid # 0 /\ pipeline_ID_EX.inst.op # "OP_NOOP") =>
        /\ reg_valid(pipeline_ID_EX.inst.rd)
        /\ reg_valid(pipeline_ID_EX.inst.rs1)
        /\ reg_valid(pipeline_ID_EX.inst.rs2)

\* The assert of wb_stage, reached when it writes.
wb_assert(c) ==
    (/\ c.pipeline_MEM_WB.inst.valid # 0
     /\ c.pipeline_MEM_WB.inst.op # "OP_NOOP"
     /\ c.pipeline_MEM_WB.inst.rd # REG_UNUSED) => reg_valid(c.pipeline_MEM_WB.inst.rd)

\* Every assert holds at the step that evaluates it.
AssertsHold ==
    /\ pc \in {"prime", "if", "adv"} => pc_in_range(cpu)
    /\ pc = "ex" => execute_asserts(cpu.pipeline_ID_EX)
    /\ pc = "wb" => wb_assert(cpu)

\* C21: no assert fails at the step that evaluates it, and every state
\* other than the end of main has a next state.
EngineTotal ==
    /\ AssertsHold
    /\ pc # "done" => ENABLED NextOutOfRange

\* ================================================================ loader
\* program_load of src/test3/test3.c.  A line of inst.txt is the sequence of
\* tokens strtok cuts it into at " ,\t\n"; a token is a sequence of
\* characters; a missing token (strtok returned NULL) is the empty sequence.

\* Most lines a file of the model has.
MaxLines == 3

DigitOf ==
    ("0" :> 0) @@ ("1" :> 1) @@ ("2" :> 2) @@ ("3" :> 3) @@ ("4" :> 4) @@
    ("5" :> 5) @@ ("6" :> 6) @@ ("7" :> 7) @@ ("8" :> 8) @@ ("9" :> 9)

RECURSIVE scan_digits(_, _, _)
\* The digits at the head of s, read onto the value acc; n counts them.
scan_digits(s, acc, n) ==
    IF s # <<>> /\ Head(s) \in DOMAIN DigitOf
    THEN scan_digits(Tail(s), 10 * acc + DigitOf[Head(s)], n + 1)
    ELSE [n |-> n, value |-> acc, rest |-> s]

\* sscanf's %d at the head of s: an optional sign, then at least one digit.
scan_int(s) ==
    LET signed == s # <<>> /\ Head(s) \in {"+", "-"}
        d == scan_digits(IF signed THEN Tail(s) ELSE s, 0, 0)
    IN [ok |-> d.n > 0,
        value |-> IF signed /\ Head(s) = "-" THEN 0 - d.value ELSE d.value,
        rest |-> d.rest]

\* sscanf(tok, "R%d", &r) == 1: the register number, or -2 when it fails.
scan_reg(tok) ==
    IF tok # <<>> /\ Head(tok) = "R" /\ scan_int(Tail(tok)).ok
    THEN scan_int(Tail(tok)).value
    ELSE -2

\* parse_offset_reg: sscanf(s, "%d(R%d)", &off, &r) == 2.
parse_offset_reg(s) ==
    LET off == scan_int(s)
        r == IF off.ok /\ Len(off.rest) >= 2 /\ off.rest[1] = "(" /\ off.rest[2] = "R"
             THEN scan_int(Tail(Tail(off.rest)))
             ELSE [ok |-> FALSE, value |-> 0, rest |-> <<>>]
    IN IF s # <<>> /\ off.ok /\ r.ok
       THEN [ok |-> TRUE, offset |-> off.value, reg |-> r.value]
       ELSE [ok |-> FALSE, offset |-> 0, reg |-> -1]

\* The parse functions on the tokens: a token sscanf cannot read makes the
\* line invalid, a number it reads goes through the range checks.
parse_mov_tokens(rd_str, imm_str) ==
    IF scan_reg(rd_str) = -2 \/ imm_str = <<>> \/ ~scan_int(imm_str).ok
    THEN make_invalid_instruction
    ELSE parse_mov(scan_reg(rd_str), scan_int(imm_str).value)

parse_rtype_tokens(op, rd_str, rs1_str, rs2_str) ==
    IF scan_reg(rd_str) = -2 \/ scan_reg(rs1_str) = -2 \/ scan_reg(rs2_str) = -2
    THEN make_invalid_instruction
    ELSE parse_rtype(op, scan_reg(rd_str), scan_reg(rs1_str), scan_reg(rs2_str))

parse_load_tokens(rd_str, addr_str) ==
    IF scan_reg(rd_str) = -2 \/ ~parse_offset_reg(addr_str).ok
    THEN make_invalid_instruction
    ELSE parse_load(scan_reg(rd_str), parse_offset_reg(addr_str).offset,
                    parse_offset_reg(addr_str).reg)

parse_store_tokens(rs_str, addr_str) ==
    IF scan_reg(rs_str) = -2 \/ ~parse_offset_reg(addr_str).ok
    THEN make_invalid_instruction
    ELSE parse_store(scan_reg(rs_str), parse_offset_reg(addr_str).offset,
                     parse_offset_reg(addr_str).reg)

\* The token at position i of a line, empty when the line has fewer.
Tok(line, i) == IF i <= Len(line) THEN line[i] ELSE <<>>

\* strcasecmp(opcode_str, name) == 0, for the spellings the model uses.
same_opcode(opcode_str, name) ==
    \/ opcode_str = name
    \/ name = <<"m", "o", "v">> /\ opcode_str = <<"M", "O", "V">>

\* parse_line: dispatch on the first token.
parse_line(line) ==
    LET opcode_str == Tok(line, 1)
    IN IF opcode_str = <<>> THEN make_invalid_instruction
       ELSE IF same_opcode(opcode_str, <<"m", "o", "v">>)
            THEN parse_mov_tokens(Tok(line, 2), Tok(line, 3))
       ELSE IF same_opcode(opcode_str, <<"a", "d", "d">>)
            THEN parse_rtype_tokens("OP_ADD", Tok(line, 2), Tok(line, 3), Tok(line, 4))
       ELSE IF same_opcode(opcode_str, <<"s", "u", "b">>)
            THEN parse_rtype_tokens("OP_SUB", Tok(line, 2), Tok(line, 3), Tok(line, 4))
       ELSE IF same_opcode(opcode_str, <<"m", "u", "l">>)
            THEN parse_rtype_tokens("OP_MUL", Tok(line, 2), Tok(line, 3), Tok(line, 4))
       ELSE IF same_opcode(opcode_str, <<"l", "o", "a", "d">>)
            THEN parse_load_tokens(Tok(line, 2), Tok(line, 3))
       ELSE IF same_opcode(opcode_str, <<"s", "t", "o", "r", "e">>)
            THEN parse_store_tokens(Tok(line, 2), Tok(line, 3))
       ELSE make_invalid_instruction

\* The lines the files of the model are made of.
LinePool ==
    { << <<"m","o","v">>, <<"R","1">>, <<"5">> >>,
      << <<"M","O","V">>, <<"R","1","5">>, <<"-","7">> >>,
      << <<"m","o","v">>, <<"R","1","6">>, <<"5">> >>,
      << <<"m","o","v">>, <<"R","1">> >>,
      << <<"m","o","v">>, <<"r","1">>, <<"5">> >>,
      << <<"a","d","d">>, <<"R","2">>, <<"R","1">>, <<"R","1">> >>,
      << <<"a","d","d">>, <<"R","2">>, <<"R","1">> >>,
      << <<"m","u","l">>, <<"R","3">>, <<"R","-","1">>, <<"R","1">> >>,
      << <<"s","u","b">>, <<"R","1">>, <<"R","2">>, <<"R","x">> >>,
      << <<"l","o","a","d">>, <<"R","2">>, <<"8","(","R","0",")">> >>,
      << <<"l","o","a","d">>, <<"R","2">>, <<"8","(","R","1","6",")">> >>,
      << <<"s","t","o","r","e">>, <<"R","1">>, <<"-","4","(","R","0",")">> >>,
      << <<"s","t","o","r","e">>, <<"R","1">>, <<"(","R","0",")">> >>,
      << <<"j","m","p">>, <<"R","1">> >>,
      << >> }

Files == UNION { [1..n -> LinePool] : n \in 0..MaxLines }

\* main up to the call of program_load.
InitLoader ==
    /\ \E f \in Files : ld = [file |-> f, lineno |-> 0]
    /\ cpu = InitCPU(<<>>)
    /\ pc = "load"
    /\ R = [i \in 0..(NUM_REGS - 1) |-> 0]
    /\ memory = <<>>
    /\ cycle = 1
    /\ mem_res = [next |-> make_nop_latch]
    /\ ex_res = execute_stage(InitCPU(<<>>), make_nop_latch)
    /\ dec_res = decode_stage(InitCPU(<<>>), make_nop_latch, make_nop_latch)
    /\ fetched_inst = make_nop
    /\ saved_pipeline_ID_EX = make_nop_latch
    /\ slot = [IF_ID |-> 0, ID_EX |-> 0, EX_MEM |-> 0, MEM_WB |-> 0]
    /\ stalls = 0
    /\ held = <<>> /\ latched = <<>> /\ exlog = <<>> /\ memlog = <<>> /\ flow = <<>>
    /\ before_print = <<>>
    /\ test2 = "off" /\ prog1 = "off"
    /\ fwd = "off" /\ test1 = "off" /\ pipe = "off"

pipeline_vars == <<R, memory, cycle, locals, history, before_print>>

\* program_load: one turn of the while loop.
LoadLine ==
    /\ pc = "load"
    /\ ld.lineno < Len(ld.file) /\ cpu.inst_count < MAX_INST
    /\ LET ins == parse_line(ld.file[ld.lineno + 1])
       IN cpu' = IF ins.valid # 0
                 THEN [cpu EXCEPT !.program = Append(@, ins),
                                  !.inst_count = @ + 1]
                 ELSE cpu
    /\ ld' = [ld EXCEPT !.lineno = @ + 1]
    /\ UNCHANGED <<pc, pipeline_vars, test2, prog1, variants>>

\* program_load: fgets finds no line, or the store is full.
LoadDone ==
    /\ pc = "load"
    /\ ~(ld.lineno < Len(ld.file) /\ cpu.inst_count < MAX_INST)
    /\ pc' = "loaded"
    /\ UNCHANGED <<cpu, ld, pipeline_vars, test2, prog1, variants>>

NextLoader == LoadLine \/ LoadDone

SpecLoader == InitLoader /\ [][NextLoader]_vars

\* ---------------------------------------------------------------- C22
\* A line as the loader contract describes a parsable one: a known opcode
\* with all its operands present and readable and every register in range.
RegText == { <<"R", "0">>, <<"R", "1">>, <<"R", "2">>, <<"R", "3">>, <<"R", "1", "5">> }

WellFormed(line) ==
    \/ /\ Tok(line, 1) \in { <<"m","o","v">>, <<"M","O","V">> }
       /\ Tok(line, 2) \in RegText /\ Tok(line, 3) \in { <<"5">>, <<"-","7">> }
    \/ /\ Tok(line, 1) \in { <<"a","d","d">>, <<"s","u","b">>, <<"m","u","l">> }
       /\ Tok(line, 2) \in RegText /\ Tok(line, 3) \in RegText /\ Tok(line, 4) \in RegText
    \/ /\ Tok(line, 1) \in { <<"l","o","a","d">>, <<"s","t","o","r","e">> }
       /\ Tok(line, 2) \in RegText
       /\ Tok(line, 3) \in { <<"8","(","R","0",")">>, <<"-","4","(","R","0",")">> }

RegOrUnused(r) == r = REG_UNUSED \/ (r >= 0 /\ r < NUM_REGS)

\* C22: every stored instruction is valid, has one of the six opcodes and
\* registers in range or unused; the store holds exactly the well-formed
\* lines read so far, so a line that fails to parse is dropped and leaves
\* inst_count as it was.
LoaderContract ==
    (pc \in {"load", "loaded"}) =>
        /\ \A i \in 1..Len(cpu.program) :
              /\ cpu.program[i].valid = 1
              /\ cpu.program[i].op \in {"OP_MOV", "OP_ADD", "OP_SUB", "OP_MUL",
                                        "OP_LOAD", "OP_STORE"}
              /\ RegOrUnused(cpu.program[i].rd)
              /\ RegOrUnused(cpu.program[i].rs1)
              /\ RegOrUnused(cpu.program[i].rs2)
        /\ cpu.inst_count = Len(cpu.program)
        /\ cpu.inst_count =
              Cardinality({ i \in 1..ld.lineno : WellFormed(ld.file[i]) })

\* A file has been read in which one line was stored and a later one dropped.
LoaderWitness ==
    /\ pc = "loaded" /\ ld.lineno = Len(ld.file)
    /\ cpu.inst_count >= 1 /\ cpu.inst_count < ld.lineno
    /\ ~WellFormed(ld.file[ld.lineno])

\* ================================================================ test2.c
\* src/test1/test2.c: the four-opcode pipeline with a stall on every
\* read-after-write between IF/ID and ID/EX.  Its globals and the locals of
\* main are the fields of the record test2; pc is the position in main.

\* Longest program of test2.c the model runs.
Test2MaxLen == 3

test2_make_nop ==
    [op |-> "OP_NOOP", rd |-> -1, rs1 |-> -1, rs2 |-> -1, imm |-> 0, valid |-> 0]

\* What parse_line of test2.c stores for a line: an opcode it knows makes the
\* line valid whatever sscanf read, and a field sscanf did not reach stays -1.
test2_parse_line(op, rd, rs1, rs2, imm) ==
    [op |-> op, rd |-> rd, rs1 |-> rs1, rs2 |-> rs2, imm |-> imm, valid |-> 1]

\* mov R1,5  mov R2,3  add R3,R1,R2  sub R1,R3,R1  mul R2,R2,R2
\* mov R100000000,1  add
Test2Pool ==
    { test2_parse_line("OP_MOV", 1, -1, -1, 5),
      test2_parse_line("OP_MOV", 2, -1, -1, 3),
      test2_parse_line("OP_ADD", 3, 1, 2, 0),
      test2_parse_line("OP_SUB", 1, 3, 1, 0),
      test2_parse_line("OP_MUL", 2, 2, 2, 0),
      test2_parse_line("OP_MOV", 100000000, -1, -1, 1),
      test2_parse_line("OP_ADD", -1, -1, -1, 0) }

\* A zeroed global latch after init_pipeline.
test2_latch == [inst |-> test2_make_nop, alu_result |-> 0, val_rs1 |-> 0, val_rs2 |-> 0]

\* The globals after program_load and init_pipeline, main about to test the
\* loop condition with cycle = 1.  History: stalls counts the stall cycles,
\* executed lists the valid instructions execute_stage has worked on.
test2_init(prog) ==
    [R |-> [i \in 0..(NUM_REGS - 1) |-> 0],
     program |-> prog, inst_count |-> Len(prog), PC |-> 0,
     IF_ID_latch |-> test2_latch, ID_EX_latch |-> test2_latch,
     EX_MEM_latch |-> test2_latch, MEM_WB_latch |-> test2_latch,
     cycle |-> 1, needs_stall |-> FALSE, pc |-> "test", stalls |-> 0,
     executed |-> <<>>]

test2_pipeline_is_empty(t) ==
    /\ t.IF_ID_latch.inst.valid = 0 /\ t.ID_EX_latch.inst.valid = 0
    /\ t.EX_MEM_latch.inst.valid = 0 /\ t.MEM_WB_latch.inst.valid = 0

test2_fetch_stage(t) ==
    IF t.PC < t.inst_count THEN t.program[t.PC + 1] ELSE test2_make_nop

test2_decode_stage(t) ==
    IF \/ t.IF_ID_latch.inst.valid = 0 \/ t.ID_EX_latch.inst.valid = 0
       \/ t.ID_EX_latch.inst.op = "OP_NOOP" \/ t.ID_EX_latch.inst.rd = -1
    THEN FALSE
    ELSE \/ t.IF_ID_latch.inst.rs1 # -1 /\ t.IF_ID_latch.inst.rs1 = t.ID_EX_latch.inst.rd
         \/ t.IF_ID_latch.inst.rs2 # -1 /\ t.IF_ID_latch.inst.rs2 = t.ID_EX_latch.inst.rd

\* The words R[r] can read: the register, or any word when r is outside R[].
test2_read(t, r) == IF r >= 0 /\ r < NUM_REGS THEN {t.R[r]} ELSE UBWords

\* An operand of execute_stage: raw is what R[r] read.
test2_forward(t, r, raw) ==
    IF r = -1 THEN raw
    ELSE IF t.EX_MEM_latch.inst.valid # 0 /\ t.EX_MEM_latch.inst.rd = r
         THEN t.EX_MEM_latch.alu_result
    ELSE IF t.MEM_WB_latch.inst.valid # 0 /\ t.MEM_WB_latch.inst.rd = r
         THEN t.MEM_WB_latch.alu_result
    ELSE raw

\* execute_stage: it works on the ID/EX latch in place.
test2_execute_stage(t, raw1, raw2) ==
    IF t.ID_EX_latch.inst.valid = 0 \/ t.ID_EX_latch.inst.op = "OP_NOOP" THEN t
    ELSE LET val1 == test2_forward(t, t.ID_EX_latch.inst.rs1, raw1)
             val2 == test2_forward(t, t.ID_EX_latch.inst.rs2, raw2)
         IN [t EXCEPT !.ID_EX_latch.val_rs1 = val1,
                      !.ID_EX_latch.val_rs2 = val2,
                      !.ID_EX_latch.alu_result =
                          CASE t.ID_EX_latch.inst.op = "OP_MOV" -> t.ID_EX_latch.inst.imm
                            [] t.ID_EX_latch.inst.op = "OP_ADD" -> val1 + val2
                            [] t.ID_EX_latch.inst.op = "OP_SUB" -> val1 - val2
                            [] t.ID_EX_latch.inst.op = "OP_MUL" -> val1 * val2
                            [] OTHER -> 0]

test2_writes_back(t) ==
    /\ t.MEM_WB_latch.inst.valid # 0 /\ t.MEM_WB_latch.inst.op # "OP_NOOP"
    /\ t.MEM_WB_latch.inst.rd # -1

\* Mutant: a stall inserts the NOP but IF/ID is overwritten by the fetch and
\* PC advances.
test2_advance_noHold(t) ==
    [t EXCEPT
       !.MEM_WB_latch = t.EX_MEM_latch,
       !.EX_MEM_latch = t.ID_EX_latch,
       !.ID_EX_latch = IF t.needs_stall
                       THEN [t.ID_EX_latch EXCEPT !.inst = test2_make_nop]
                       ELSE t.IF_ID_latch,
       !.IF_ID_latch = [t.IF_ID_latch EXCEPT !.inst = test2_fetch_stage(t)],
       !.PC = t.PC + 1,
       !.cycle = t.cycle + 1,
       !.stalls = IF t.needs_stall THEN t.stalls + 1 ELSE t.stalls,
       !.pc = "test"]

\* main, part 3: the latches move, the fetch and PC++ happen unless stalled.
test2_advance(t) ==
    [t EXCEPT
       !.MEM_WB_latch = t.EX_MEM_latch,
       !.EX_MEM_latch = t.ID_EX_latch,
       !.ID_EX_latch = IF t.needs_stall
                       THEN [t.ID_EX_latch EXCEPT !.inst = test2_make_nop]
                       ELSE t.IF_ID_latch,
       !.IF_ID_latch = IF t.needs_stall THEN t.IF_ID_latch
                       ELSE [t.IF_ID_latch EXCEPT !.inst = test2_fetch_stage(t)],
       !.PC = IF t.needs_stall THEN t.PC ELSE t.PC + 1,
       !.cycle = t.cycle + 1,
       !.stalls = IF t.needs_stall THEN t.stalls + 1 ELSE t.stalls,
       !.pc = "test"]

test3_vars == <<cpu, R, memory, cycle, pc, locals, history, before_print, ld>>

InitTest2 ==
    /\ \E prog \in UNION { [1..n -> Test2Pool] : n \in 0..Test2MaxLen } :
          test2 = test2_init(prog)
    /\ cpu = InitCPU(<<>>)
    /\ pc = "off"
    /\ R = [i \in 0..(NUM_REGS - 1) |-> 0]
    /\ memory = <<>>
    /\ cycle = 1
    /\ mem_res = [next |-> make_nop_latch]
    /\ ex_res = execute_stage(InitCPU(<<>>), make_nop_latch)
    /\ dec_res = decode_stage(InitCPU(<<>>), make_nop_latch, make_nop_latch)
    /\ fetched_inst = make_nop
    /\ saved_pipeline_ID_EX = make_nop_latch
    /\ slot = [IF_ID |-> 0, ID_EX |-> 0, EX_MEM |-> 0, MEM_WB |-> 0]
    /\ stalls = 0
    /\ held = <<>> /\ latched = <<>> /\ exlog = <<>> /\ memlog = <<>> /\ flow = <<>>
    /\ before_print = <<>>
    /\ ld = "loaded" /\ prog1 = "off"
    /\ fwd = "off" /\ test1 = "off" /\ pipe = "off"

\* main: while (PC < inst_count || !pipeline_is_empty())
Test2LoopEnter ==
    /\ test2.pc = "test"
    /\ test2.PC < test2.inst_count \/ ~test2_pipeline_is_empty(test2)
    /\ test2' = [test2 EXCEPT !.pc = "wb"]
    /\ UNCHANGED <<test3_vars, prog1, variants>>

Test2LoopExit ==
    /\ test2.pc = "test"
    /\ ~(test2.PC < test2.inst_count \/ ~test2_pipeline_is_empty(test2))
    /\ test2' = [test2 EXCEPT !.pc = "done"]
    /\ UNCHANGED <<test3_vars, prog1, variants>>

\* wb_stage, then mem_stage, which does nothing.  A destination outside R[]
\* makes the write undefined: the run is killed, or the word lands outside
\* the register file and the run goes on.
Test2WB ==
    /\ test2.pc = "wb"
    /\ \/ /\ ~test2_writes_back(test2)
          /\ test2' = [test2 EXCEPT !.pc = "ex"]
       \/ /\ test2_writes_back(test2)
          /\ test2.MEM_WB_latch.inst.rd >= 0 /\ test2.MEM_WB_latch.inst.rd < NUM_REGS
          /\ test2' = [test2 EXCEPT !.R[test2.MEM_WB_latch.inst.rd] =
                                        test2.MEM_WB_latch.alu_result,
                                    !.pc = "ex"]
       \/ /\ test2_writes_back(test2)
          /\ ~(test2.MEM_WB_latch.inst.rd >= 0 /\ test2.MEM_WB_latch.inst.rd < NUM_REGS)
          /\ \E next \in {"killed", "ex"} : test2' = [test2 EXCEPT !.pc = next]
    /\ UNCHANGED <<test3_vars, prog1, variants>>

\* execute_stage: R[rs1] and R[rs2] are read before the test for -1.
Test2EX ==
    /\ test2.pc = "ex"
    /\ \E raw1 \in test2_read(test2, test2.ID_EX_latch.inst.rs1),
          raw2 \in test2_read(test2, test2.ID_EX_latch.inst.rs2) :
          test2' = [test2_execute_stage(test2, raw1, raw2) EXCEPT
                       !.pc = "id",
                       !.executed = IF test2.ID_EX_latch.inst.valid # 0
                                    THEN Append(@, test2.ID_EX_latch.inst) ELSE @]
    /\ UNCHANGED <<test3_vars, prog1, variants>>

Test2ID ==
    /\ test2.pc = "id"
    /\ test2' = [test2 EXCEPT !.needs_stall = test2_decode_stage(test2), !.pc = "adv"]
    /\ UNCHANGED <<test3_vars, prog1, variants>>

Test2Advance ==
    /\ test2.pc = "adv"
    /\ test2' = test2_advance(test2)
    /\ UNCHANGED <<test3_vars, prog1, variants>>

NextTest2 ==
    \/ Test2LoopEnter \/ Test2LoopExit
    \/ Test2WB \/ Test2EX \/ Test2ID \/ Test2Advance

SpecTest2 == InitTest2 /\ [][NextTest2]_vars

\* ---------------------------------------------------------------- C23
\* The instruction in IF/ID reads the destination of the valid one in ID/EX.
Test2Reads ==
    /\ test2.IF_ID_latch.inst.valid # 0 /\ test2.ID_EX_latch.inst.valid # 0
    /\ test2.ID_EX_latch.inst.rd # -1
    /\ test2.ID_EX_latch.inst.rd \in {test2.IF_ID_latch.inst.rs1,
                                      test2.IF_ID_latch.inst.rs2}

\* C23: a run of test2.c on N instructions that has stopped has run exactly
\* N + 4 + S turns of the loop, S the number of stall cycles, and decode
\* stalls exactly when IF/ID reads the destination of the valid ID/EX
\* instruction.
Test2Drain ==
    /\ test2.pc \in {"done", "killed"} =>
          test2.cycle - 1 = test2.inst_count + 4 + test2.stalls
    /\ test2.pc = "adv" => (test2.needs_stall <=> Test2Reads)

\* ================================================================ Prog1.c
\* src/dataHazard/Prog1.c: main reads instructions.txt into inst[], then walks
\* it once, charging two stall cycles for each hazard.  The locals of main
\* and the global registers[] are the fields of the record prog1.

REG_COUNT == 8

\* Most lines of instructions.txt in the model.
Prog1MaxLen == 3

\* What main stores for a line one of the sscanf patterns matches.
prog1_line(opcode, rd, rs1, rs2, imm) ==
    [opcode |-> opcode, rd |-> rd, rs1 |-> rs1, rs2 |-> rs2, imm |-> imm,
     isImmediate |-> IF opcode = "mov" THEN 1 ELSE 0]

\* What main stores for a line no pattern matches: opcode and rd were never
\* assigned and hold whatever the stack held.
prog1_unmatched ==
    { [opcode |-> o, rd |-> d, rs1 |-> 0, rs2 |-> 0, imm |-> 0, isImmediate |-> 0] :
        o \in {"mov", "add", "junk"}, d \in UBWords }

\* mov R1,5  mov R0,2  add R2,R1,R1  sub R3,R2,R0  mul R2,R3,R3  mov R9,1
Prog1Pool ==
    { prog1_line("mov", 1, 0, 0, 5), prog1_line("mov", 0, 0, 0, 2),
      prog1_line("add", 2, 1, 1, 0), prog1_line("sub", 3, 2, 0, 0),
      prog1_line("mul", 2, 3, 3, 0), prog1_line("mov", 9, 0, 0, 1) }
    \cup prog1_unmatched

\* Mutant: the hazard test looks at the first source register only.
hasHazard_rs1(prev, curr) ==
    IF curr.opcode = "mov" THEN FALSE ELSE curr.rs1 = prev.rd

hasHazard(prev, curr) ==
    IF curr.opcode = "mov" THEN FALSE
    ELSE curr.rs1 = prev.rd \/ curr.rs2 = prev.rd

in_registers(r) == r >= 0 /\ r < REG_COUNT

\* The words registers[r] can read.
prog1_read(regs, r) == IF in_registers(r) THEN {regs[r]} ELSE UBWords

\* execute: the value written to registers[inst.rd], if any; a and b are what
\* registers[rs1] and registers[rs2] read.
execute(inst, a, b) ==
    IF inst.opcode = "mov" /\ inst.isImmediate # 0 THEN <<inst.imm>>
    ELSE IF inst.opcode = "add" THEN <<a + b>>
    ELSE IF inst.opcode = "sub" THEN <<a - b>>
    ELSE IF inst.opcode = "mul" THEN <<a * b>>
    ELSE <<>>

InitProg1 ==
    /\ \E prog \in UNION { [1..n -> Prog1Pool] : n \in 0..Prog1MaxLen } :
          prog1 = [inst |-> prog, count |-> Len(prog), i |-> 0, cycles |-> 0,
                   stalls |-> 0, registers |-> [r \in 0..(REG_COUNT - 1) |-> 0],
                   pc |-> "run"]
    /\ cpu = InitCPU(<<>>)
    /\ pc = "off"
    /\ R = [i \in 0..(NUM_REGS - 1) |-> 0]
    /\ memory = <<>>
    /\ cycle = 1
    /\ mem_res = [next |-> make_nop_latch]
    /\ ex_res = execute_stage(InitCPU(<<>>), make_nop_latch)
    /\ dec_res = decode_stage(InitCPU(<<>>), make_nop_latch, make_nop_latch)
    /\ fetched_inst = make_nop
    /\ saved_pipeline_ID_EX = make_nop_latch
    /\ slot = [IF_ID |-> 0, ID_EX |-> 0, EX_MEM |-> 0, MEM_WB |-> 0]
    /\ stalls = 0
    /\ held = <<>> /\ latched = <<>> /\ exlog = <<>> /\ memlog = <<>> /\ flow = <<>>
    /\ before_print = <<>>
    /\ ld = "loaded" /\ test2 = "off"
    /\ fwd = "off" /\ test1 = "off" /\ pipe = "off"

\* main: one turn of the for loop.  A write to registers[rd] outside the
\* array is undefined: the run is killed, or the word lands outside the
\* register file and the run goes on.
Prog1Step ==
    /\ prog1.pc = "run" /\ prog1.i < prog1.count
    /\ LET curr == prog1.inst[prog1.i + 1]
           hazard == prog1.i > 0 /\ hasHazard(prog1.inst[prog1.i], curr)
           charged == [prog1 EXCEPT !.stalls = IF hazard THEN @ + 2 ELSE @,
                                    !.cycles = IF hazard THEN @ + 2 ELSE @]
       IN \E a \in prog1_read(prog1.registers, curr.rs1),
             b \in prog1_read(prog1.registers, curr.rs2) :
             LET w == execute(curr, a, b)
             IN \/ /\ w = <<>> \/ in_registers(curr.rd)
                   /\ prog1' = [charged EXCEPT
                                  !.registers = IF w = <<>> THEN @
                                                ELSE [@ EXCEPT ![curr.rd] = w[1]],
                                  !.cycles = @ + 1, !.i = @ + 1]
                \/ /\ w # <<>> /\ ~in_registers(curr.rd)
                   /\ \/ prog1' = [charged EXCEPT !.pc = "killed"]
                      \/ prog1' = [charged EXCEPT !.cycles = @ + 1, !.i = @ + 1]
    /\ UNCHANGED <<test3_vars, test2, variants>>

\* main: the loop is over, cycles += 4, and the totals are written.
Prog1Report ==
    /\ prog1.pc = "run" /\ prog1.i >= prog1.count
    /\ prog1' = [prog1 EXCEPT !.cycles = @ + 4, !.pc = "reported"]
    /\ UNCHANGED <<test3_vars, test2, variants>>

NextProg1 == Prog1Step \/ Prog1Report

SpecProg1 == InitProg1 /\ [][NextProg1]_vars

\* ---------------------------------------------------------------- C24
\* The positions the claim counts: instruction i is not a mov and reads the
\* destination of instruction i-1 (1-based positions 2..count).
Prog1HazardPositions ==
    { k \in 2..prog1.count :
        /\ prog1.inst[k].opcode # "mov"
        /\ prog1.inst[k - 1].rd \in {prog1.inst[k].rs1, prog1.inst[k].rs2} }

\* C24: the reported Total Cycles is N + 4 + Stalls Inserted, and Stalls
\* Inserted is twice the number of positions i > 0 whose instruction is not
\* a mov and reads the destination register of instruction i-1.
Prog1CycleCount ==
    prog1.pc = "reported" =>
        /\ prog1.cycles = prog1.count + 4 + prog1.stalls
        /\ prog1.stalls = 2 * Cardinality(Prog1HazardPositions)

\* A report for three instructions with a hazard through the second source.
Prog1Witness ==
    /\ prog1.pc = "reported" /\ prog1.count = 3 /\ prog1.stalls >= 2
    /\ \E k \in Prog1HazardPositions : prog1.inst[k].rs1 # prog1.inst[k - 1].rd

\* ================================================================ test3.c, continued
\* ---------------------------------------------------------------- C25
\* C25: 0 <= PC <= inst_count in every reachable state of main.
PcRangeAlways ==
    cpu.PC >= 0 /\ cpu.PC <= cpu.inst_count

\* ---------------------------------------------------------------- C26
\* The first turn of the simulation loop is about to run its stages.
FirstCycleBegins == pc = "wb" /\ cycle = 1

\* C26 as stated: when the first simulated cycle begins all four latches hold
\* bubbles, PC = 0 and every register and memory word is zero.
InitialOriginal ==
    FirstCycleBegins => (LatchesAllBubbles /\ cpu.PC = 0 /\ AllZero)

\* C26 as amended: before the priming fetch all four latches are bubbles,
\* PC = 0 and all registers and memory words are zero; when the first
\* simulated cycle begins IF/ID holds the first program line, PC = 1, the
\* other three latches are bubbles and all registers and memory words are
\* still zero.
InitialState ==
    /\ pc = "prime" =>
          /\ cpu.pipeline_IF_ID = make_nop_latch /\ cpu.pipeline_ID_EX = make_nop_latch
          /\ cpu.pipeline_EX_MEM = make_nop_latch /\ cpu.pipeline_MEM_WB = make_nop_latch
          /\ cpu.PC = 0 /\ AllZero
    /\ FirstCycleBegins =>
          /\ cpu.pipeline_IF_ID = [make_nop_latch EXCEPT !.inst = cpu.program[1]]
          /\ cpu.pipeline_ID_EX = make_nop_latch
          /\ cpu.pipeline_EX_MEM = make_nop_latch /\ cpu.pipeline_MEM_WB = make_nop_latch
          /\ cpu.PC = 1 /\ AllZero

InitialStateWitness == FirstCycleBegins /\ cpu.inst_count >= 2

\* ---------------------------------------------------------------- C27
\* The result the claim states for the instruction inst on operands a and b.
StatedResult(inst, a, b) ==
    CASE inst.op = "OP_MOV" -> inst.imm
      [] inst.op = "OP_ADD" -> a + b
      [] inst.op = "OP_SUB" -> a - b
      [] inst.op = "OP_MUL" -> a * b

\* C27: the EX step changes no register, memory word or latch of the CPU
\* state; for MOV/ADD/SUB/MUL its result is the stated function of the
\* instruction and the two resolved operands, and for a bubble the result
\* and both operand values are 0 and both provenances NONE.
ExPure ==
    [][ pc = "ex" =>
          LET l == cpu.pipeline_ID_EX
              a == resolve_operand(cpu, l.inst.rs1)
              b == resolve_operand(cpu, l.inst.rs2)
          IN /\ cpu' = cpu /\ R' = R /\ memory' = memory
             /\ ex_res'.next.inst = l.inst
             /\ (l.inst.valid # 0 /\ l.inst.op \in {"OP_MOV", "OP_ADD", "OP_SUB", "OP_MUL"}) =>
                   /\ ex_res'.next.val_rs1 = a.value /\ ex_res'.next.val_rs2 = b.value
                   /\ ex_res'.next.alu_result = StatedResult(l.inst, a.value, b.value)
             /\ (l.inst.valid = 0 \/ l.inst.op = "OP_NOOP") =>
                   /\ ex_res'.next.alu_result = 0
                   /\ ex_res'.next.val_rs1 = 0 /\ ex_res'.next.val_rs2 = 0
                   /\ ex_res'.next.src_rs1 = "SRC_NONE"
                   /\ ex_res'.next.src_rs2 = "SRC_NONE" ]_vars

\* EX has just computed a SUB on two different operand values.
ExPureWitness ==
    /\ pc = "id" /\ ex_res.next.src_rs1 # "SRC_NONE"
    /\ ex_res.next.inst.valid # 0 /\ ex_res.next.inst.op = "OP_SUB"
    /\ ex_res.next.val_rs1 # ex_res.next.val_rs2

\* ---------------------------------------------------------------- C28
\* C28: a step changes memory (the file-scope array or the one in the CPU
\* state) only if it is the MEM step of a cycle whose EX/MEM latch holds a
\* valid STORE; the MEM step of a valid MOV/ADD/SUB/MUL hands the EX/MEM
\* latch on unchanged and leaves every memory word as it was.
MemoryFrame ==
    [][ /\ (memory' # memory \/ cpu'.memory # cpu.memory) =>
              /\ pc = "mem"
              /\ cpu.pipeline_EX_MEM.inst.valid # 0
              /\ cpu.pipeline_EX_MEM.inst.op = "OP_STORE"
        /\ (/\ pc = "mem" /\ cpu.pipeline_EX_MEM.inst.valid # 0
            /\ cpu.pipeline_EX_MEM.inst.op \in {"OP_MOV", "OP_ADD", "OP_SUB", "OP_MUL"}) =>
              /\ mem_res'.next = cpu.pipeline_EX_MEM
              /\ memory' = memory /\ cpu'.memory = cpu.memory ]_vars

\* A STORE has written memory and an instruction with a non-zero result has
\* just gone through MEM.
MemoryFrameWitness ==
    /\ pc = "ex" /\ memory # <<>>
    /\ cpu.pipeline_EX_MEM.inst.valid # 0
    /\ cpu.pipeline_EX_MEM.inst.op \in {"OP_MOV", "OP_ADD", "OP_SUB", "OP_MUL"}
    /\ cpu.pipeline_EX_MEM.alu_result # 0
    /\ mem_res.next = cpu.pipeline_EX_MEM

\* ---------------------------------------------------------------- C29
\* C29: only the WB step changes a register array, the one of the CPU state
\* or the file-scope one.
RegisterFrame ==
    [][ (cpu'.R # cpu.R \/ R' # R) => pc = "wb" ]_vars

\* ---------------------------------------------------------------- C30
\* C30: when advance_pipeline is about to run, the four latches, PC, the
\* registers and memory are what they were before the cycle was printed.
PrintReadOnly ==
    pc = "adv" => <<cpu, R, memory>> = before_print

\* The cycle was printed with an EX result that differs from the ID/EX latch.
PrintReadOnlyWitness ==
    /\ pc = "adv" /\ cpu.pipeline_ID_EX.inst.valid # 0
    /\ ex_res.next # cpu.pipeline_ID_EX

\* ---------------------------------------------------------------- C31
\* The register file after executing lines k..Len(prog) of prog one at a time,
\* in program order, starting from the register file regs.
RECURSIVE SequentialFrom(_, _, _)
SequentialFrom(prog, k, regs) ==
    IF k > Len(prog) THEN regs
    ELSE LET i == prog[k]
             v == CASE i.op = "OP_MOV" -> i.imm
                    [] i.op = "OP_ADD" -> regs[i.rs1] + regs[i.rs2]
                    [] i.op = "OP_SUB" -> regs[i.rs1] - regs[i.rs2]
                    [] i.op = "OP_MUL" -> regs[i.rs1] * regs[i.rs2]
         IN SequentialFrom(prog, k + 1, [regs EXCEPT ![i.rd] = v])

ZeroRegs == [i \in 0..(NUM_REGS - 1) |-> 0]

OnlyALU == \A k \in Lines : IsALU(Line(k))

\* C31: for a program of MOV/ADD/SUB/MUL lines only, the register file of the
\* CPU when main has left the loop equals the register file of executing the
\* lines one at a time in program order.
SequentialEquivalence ==
    (pc = "done" /\ OnlyALU) => cpu.R = SequentialFrom(cpu.program, 1, ZeroRegs)

\* A drained program of three ALU lines in which line 2 reads and rewrites the
\* destination of line 1 and line 3 reads it again.
SequentialWitness ==
    /\ pc = "done" /\ OnlyALU /\ cpu.inst_count = 3
    /\ Line(2).rs2 = Line(1).rd /\ Line(2).rd = Line(1).rd
    /\ Line(3).rs2 = Line(1).rd
    /\ cpu.R[Line(3).rd] # 0

\* ---------------------------------------------------------------- C32
LatchOf(L) ==
    CASE L = "IF_ID"  -> cpu.pipeline_IF_ID
      [] L = "ID_EX"  -> cpu.pipeline_ID_EX
      [] L = "EX_MEM" -> cpu.pipeline_EX_MEM
      [] L = "MEM_WB" -> cpu.pipeline_MEM_WB

\* The position of each latch on the way of an instruction.
Order == [IF_ID |-> 1, ID_EX |-> 2, EX_MEM |-> 3, MEM_WB |-> 4]

\* Between two cycles (the print phase shows the EX result in ID/EX, so the
\* latches are compared outside of it) a latch holds the instruction of the
\* line the history names, and a bubble where it names none.
LatchesHoldLines ==
    pc \in {"test", "wb", "mem", "ex", "id", "if", "print", "done"} =>
        \A L \in LatchNames :
            IF slot[L] = 0 THEN LatchOf(L).inst.valid = 0
            ELSE slot[L] \in Lines /\ LatchOf(L).inst = Line(slot[L])

\* No line enters a latch twice, a line enters a latch only after the latch
\* before it, and a later line enters a latch only after every earlier line.
FlowInOrder ==
    \A k \in Lines :
        /\ \A L \in LatchNames : Len(flow[k][L]) <= 1
        /\ \A L, M \in LatchNames :
              (Order[L] < Order[M] /\ flow[k][M] # <<>>) =>
                  (flow[k][L] # <<>> /\ flow[k][L][1] < flow[k][M][1])
        /\ \A j \in Lines : \A L \in LatchNames :
              (k < j /\ flow[j][L] # <<>>) =>
                  (flow[k][L] # <<>> /\ flow[k][L][1] < flow[j][L][1])

\* Every line has been in each of the four latches.
FlowComplete ==
    \A k \in Lines : \A L \in LatchNames : Len(flow[k][L]) = 1

\* C32: every line of the program is admitted into IF/ID once, in program
\* order, and then occupies ID/EX, EX/MEM and MEM/WB once each in that order;
\* no line is dropped or duplicated by a stall, no line overtakes another, and
\* every line has eventually been through all four latches.
InOrderFlow ==
    /\ [](LatchesHoldLines /\ FlowInOrder)
    /\ <>(pc = "done" /\ FlowComplete)

\* A drained program in which a line was held by a stall.
InOrderFlowWitness ==
    /\ pc = "done" /\ cpu.inst_count = 3 /\ stalls = 1 /\ FlowComplete
    /\ \E k \in Lines : held[k] = 1 /\ flow[k].ID_EX[1] = flow[k].IF_ID[1] + 2

FwdMaxLen == 3

fwd_make_nop ==
    [op |-> "OP_NOOP", rd |-> -1, rs1 |-> -1, rs2 |-> -1, imm |-> 0, valid |-> 0]

fwd_make_nop_latch ==
    [inst |-> fwd_make_nop, alu_result |-> 0, val_rs1 |-> 0, val_rs2 |-> 0,
     src_rs1 |-> "SRC_NONE", src_rs2 |-> "SRC_NONE"]

\* What parse_line of prog1.c stores for a line with a known opcode: the line
\* is valid whatever sscanf read, and a field sscanf did not reach stays -1.
fwd_parse_line(op, rd, rs1, rs2, imm) ==
    [op |-> op, rd |-> rd, rs1 |-> rs1, rs2 |-> rs2, imm |-> imm, valid |-> 1]

\* mov R1,5  mov R2,3  add R3,R1,R2  sub R1,R3,R1  mul R2,R2,R2
\* mov R100000000,1  add
FwdPool ==
    { fwd_parse_line("OP_MOV", 1, -1, -1, 5),
      fwd_parse_line("OP_MOV", 2, -1, -1, 3),
      fwd_parse_line("OP_ADD", 3, 1, 2, 0),
      fwd_parse_line("OP_SUB", 1, 3, 1, 0),
      fwd_parse_line("OP_MUL", 2, 2, 2, 0),
      fwd_parse_line("OP_MOV", 100000000, -1, -1, 1),
      fwd_parse_line("OP_ADD", -1, -1, -1, 0) }

\* main up to init_pipeline and cycle = 1; stall is dec_res.stall.
fwd_init(prog) ==
    [R |-> [i \in 0..(NUM_REGS - 1) |-> 0],
     program |-> prog, inst_count |-> Len(prog), PC |-> 0,
     IF_ID |-> fwd_make_nop_latch, ID_EX |-> fwd_make_nop_latch,
     EX_MEM |-> fwd_make_nop_latch, MEM_WB |-> fwd_make_nop_latch,
     ex_res |-> fwd_make_nop_latch, stall |-> FALSE,
     cycle |-> 1, pc |-> "prime", stalls |-> 0]

fwd_pipeline_is_empty(f) ==
    /\ f.IF_ID.inst.valid = 0 /\ f.ID_EX.inst.valid = 0
    /\ f.EX_MEM.inst.valid = 0 /\ f.MEM_WB.inst.valid = 0

fwd_fetch_stage(f) ==
    IF f.PC < f.inst_count THEN f.program[f.PC + 1] ELSE fwd_make_nop

\* The words cpu->R[reg] can read when resolve_operand reaches the register
\* file: the register, or any word when reg is outside R[].
fwd_read(f, reg) == IF reg >= 0 /\ reg < NUM_REGS THEN {f.R[reg]} ELSE UBWords

\* resolve_operand; raw is what cpu->R[reg] reads if it is reached.
fwd_resolve_operand(f, reg, raw) ==
    IF reg = -1 THEN [value |-> 0, src |-> "SRC_NONE"]
    ELSE IF f.EX_MEM.inst.valid # 0 /\ f.EX_MEM.inst.rd = reg /\ f.EX_MEM.inst.rd # -1
         THEN [value |-> f.EX_MEM.alu_result, src |-> "SRC_MEM"]
    ELSE IF f.MEM_WB.inst.valid # 0 /\ f.MEM_WB.inst.rd = reg /\ f.MEM_WB.inst.rd # -1
         THEN [value |-> f.MEM_WB.alu_result, src |-> "SRC_WB"]
    ELSE [value |-> raw, src |-> "SRC_REG"]

\* Mutant: the hazard skeleton that prog1.c keeps commented out, switched on.
fwd_decode_stage_skeleton(if_id, id_ex) ==
    [next |-> if_id,
     stall |-> /\ if_id.inst.valid # 0 /\ id_ex.inst.valid # 0 /\ id_ex.inst.rd # -1
               /\ id_ex.inst.rd \in {if_id.inst.rs1, if_id.inst.rs2}]

\* decode_stage: pass-through, stall = false.
fwd_decode_stage(if_id, id_ex) == [next |-> if_id, stall |-> FALSE]

\* execute_stage: the next ID/EX latch contents (r.next).
fwd_execute_stage(f, id_ex, raw1, raw2) ==
    IF id_ex.inst.valid = 0 \/ id_ex.inst.op = "OP_NOOP"
    THEN [id_ex EXCEPT !.val_rs1 = 0, !.val_rs2 = 0, !.src_rs1 = "SRC_NONE",
                       !.src_rs2 = "SRC_NONE", !.alu_result = 0]
    ELSE LET rs1 == fwd_resolve_operand(f, id_ex.inst.rs1, raw1)
             rs2 == fwd_resolve_operand(f, id_ex.inst.rs2, raw2)
         IN [id_ex EXCEPT
                !.val_rs1 = rs1.value, !.val_rs2 = rs2.value,
                !.src_rs1 = rs1.src, !.src_rs2 = rs2.src,
                !.alu_result = CASE id_ex.inst.op = "OP_MOV" -> id_ex.inst.imm
                                 [] id_ex.inst.op = "OP_ADD" -> rs1.value + rs2.value
                                 [] id_ex.inst.op = "OP_SUB" -> rs1.value - rs2.value
                                 [] id_ex.inst.op = "OP_MUL" -> rs1.value * rs2.value
                                 [] OTHER -> 0]

\* The guard of wb_stage.
fwd_writes_back(f) ==
    /\ f.MEM_WB.inst.valid # 0 /\ f.MEM_WB.inst.op # "OP_NOOP" /\ f.MEM_WB.inst.rd # -1

\* advance_pipeline(cpu, needs_stall) and cycle++.
fwd_advance_pipeline(f, needs_stall) ==
    [f EXCEPT
       !.MEM_WB = f.EX_MEM,
       !.EX_MEM = f.ID_EX,
       !.ID_EX = IF needs_stall THEN fwd_make_nop_latch ELSE f.IF_ID,
       !.IF_ID = IF needs_stall THEN f.IF_ID
                 ELSE [f.IF_ID EXCEPT !.inst = fwd_fetch_stage(f)],
       !.PC = IF ~needs_stall /\ f.PC < f.inst_count THEN f.PC + 1 ELSE f.PC,
       !.cycle = f.cycle + 1,
       !.stalls = IF needs_stall THEN f.stalls + 1 ELSE f.stalls,
       !.pc = "test"]

\* The simulator of test3.c at rest while another program runs.
Test3Idle ==
    /\ cpu = InitCPU(<<>>)
    /\ pc = "off"
    /\ R = [i \in 0..(NUM_REGS - 1) |-> 0]
    /\ memory = <<>>
    /\ cycle = 1
    /\ mem_res = [next |-> make_nop_latch]
    /\ ex_res = execute_stage(InitCPU(<<>>), make_nop_latch)
    /\ dec_res = decode_stage(InitCPU(<<>>), make_nop_latch, make_nop_latch)
    /\ fetched_inst = make_nop
    /\ saved_pipeline_ID_EX = make_nop_latch
    /\ slot = [IF_ID |-> 0, ID_EX |-> 0, EX_MEM |-> 0, MEM_WB |-> 0]
    /\ stalls = 0
    /\ held = <<>> /\ latched = <<>> /\ exlog = <<>> /\ memlog = <<>> /\ flow = <<>>
    /\ before_print = <<>>
    /\ ld = "loaded"

InitFwd ==
    /\ \E prog \in UNION { [1..n -> FwdPool] : n \in 0..FwdMaxLen } :
          fwd = fwd_init(prog)
    /\ Test3Idle
    /\ test2 = "off" /\ prog1 = "off" /\ test1 = "off" /\ pipe = "off"

\* main: the priming fetch; PC advances only if a line was fetched.
FwdPrime ==
    /\ fwd.pc = "prime"
    /\ fwd' = [fwd EXCEPT !.IF_ID.inst = fwd_fetch_stage(fwd),
                          !.PC = IF fwd.PC < fwd.inst_count THEN fwd.PC + 1 ELSE fwd.PC,
                          !.pc = "test"]
    /\ UNCHANGED <<test3_vars, test2, prog1, test1, pipe>>

\* main: while (cpu.PC < cpu.inst_count || !pipeline_is_empty(&cpu))
FwdLoopEnter ==
    /\ fwd.pc = "test"
    /\ fwd.PC < fwd.inst_count \/ ~fwd_pipeline_is_empty(fwd)
    /\ fwd' = [fwd EXCEPT !.pc = "wb"]
    /\ UNCHANGED <<test3_vars, test2, prog1, test1, pipe>>

FwdLoopExit ==
    /\ fwd.pc = "test"
    /\ ~(fwd.PC < fwd.inst_count \/ ~fwd_pipeline_is_empty(fwd))
    /\ fwd' = [fwd EXCEPT !.pc = "done"]
    /\ UNCHANGED <<test3_vars, test2, prog1, test1, pipe>>

\* wb_stage, then mem_stage, which does nothing.  A destination outside R[]
\* makes the write undefined: the run is killed, or the word lands outside
\* the register file and the run goes on.
FwdWB ==
    /\ fwd.pc = "wb"
    /\ \/ /\ ~fwd_writes_back(fwd)
          /\ fwd' = [fwd EXCEPT !.pc = "ex"]
       \/ /\ fwd_writes_back(fwd)
          /\ fwd.MEM_WB.inst.rd >= 0 /\ fwd.MEM_WB.inst.rd < NUM_REGS
          /\ fwd' = [fwd EXCEPT !.R[fwd.MEM_WB.inst.rd] = fwd.MEM_WB.alu_result,
                                !.pc = "ex"]
       \/ /\ fwd_writes_back(fwd)
          /\ ~(fwd.MEM_WB.inst.rd >= 0 /\ fwd.MEM_WB.inst.rd < NUM_REGS)
          /\ \E next \in {"killed", "ex"} : fwd' = [fwd EXCEPT !.pc = next]
    /\ UNCHANGED <<test3_vars, test2, prog1, test1, pipe>>

\* ex_res = execute_stage(&cpu, cpu.ID_EX)
FwdEX ==
    /\ fwd.pc = "ex"
    /\ \E raw1 \in fwd_read(fwd, fwd.ID_EX.inst.rs1),
          raw2 \in fwd_read(fwd, fwd.ID_EX.inst.rs2) :
          fwd' = [fwd EXCEPT !.ex_res = fwd_execute_stage(fwd, fwd.ID_EX, raw1, raw2),
                             !.pc = "id"]
    /\ UNCHANGED <<test3_vars, test2, prog1, test1, pipe>>

\* dec_res = decode_stage(...); cpu.ID_EX = ex_res.next
FwdID ==
    /\ fwd.pc = "id"
    /\ fwd' = [fwd EXCEPT !.stall = fwd_decode_stage(fwd.IF_ID, fwd.ID_EX).stall,
                          !.ID_EX = fwd.ex_res,
                          !.pc = "adv"]
    /\ UNCHANGED <<test3_vars, test2, prog1, test1, pipe>>

FwdAdvance ==
    /\ fwd.pc = "adv"
    /\ fwd' = fwd_advance_pipeline(fwd, fwd.stall)
    /\ UNCHANGED <<test3_vars, test2, prog1, test1, pipe>>

NextFwd ==
    \/ FwdPrime \/ FwdLoopEnter \/ FwdLoopExit
    \/ FwdWB \/ FwdEX \/ FwdID \/ FwdAdvance

SpecFwd == InitFwd /\ [][NextFwd]_vars

\* ---------------------------------------------------------------- C35
\* Every line of prog is a MOV/ADD/SUB/MUL with the registers it uses inside
\* the register file.
ALUInRange(prog) ==
    \A k \in 1..Len(prog) :
        LET i == prog[k]
        IN /\ i.rd \in 0..(NUM_REGS - 1)
           /\ IF i.op = "OP_MOV" THEN TRUE
              ELSE i.rs1 \in 0..(NUM_REGS - 1) /\ i.rs2 \in 0..(NUM_REGS - 1)

\* The latches decode_stage can be given: a bubble or a line of the pool.
FwdLatches ==
    { [fwd_make_nop_latch EXCEPT !.inst = i] : i \in FwdPool \cup {fwd_make_nop} }

\* C35: decode_stage of prog1.c stalls for no pair of latches, no cycle of a
\* run stalls, and when main has left the loop on a MOV/ADD/SUB/MUL program
\* the register file equals that of executing the lines one at a time in
\* program order.
FwdNoStallEquivalence ==
    /\ \A a \in FwdLatches : \A b \in FwdLatches : ~fwd_decode_stage(a, b).stall
    /\ ~fwd.stall /\ fwd.stalls = 0
    /\ (fwd.pc = "done" /\ ALUInRange(fwd.program)) =>
          fwd.R = SequentialFrom(fwd.program, 1, ZeroRegs)

\* A drained program of three in-range lines in which every line reads the
\* destination of the line before it.
FwdWitness ==
    /\ fwd.pc = "done" /\ fwd.inst_count = 3 /\ ALUInRange(fwd.program)
    /\ fwd.program[2].rs1 = fwd.program[1].rd
    /\ fwd.program[3].rs1 = fwd.program[2].rd
    /\ fwd.R[fwd.program[3].rd] # 0

\* ---------------------------------------------------------------- C36
\* The indexes into R[] that the next step of test2.c uses: execute_stage
\* reads R[rs1] and R[rs2] of a valid non-NOP instruction, wb_stage writes
\* R[rd] under its guard.
Test2Indexes ==
    IF /\ test2.pc = "ex" /\ test2.ID_EX_latch.inst.valid # 0
       /\ test2.ID_EX_latch.inst.op # "OP_NOOP"
    THEN {test2.ID_EX_latch.inst.rs1, test2.ID_EX_latch.inst.rs2}
    ELSE IF test2.pc = "wb" /\ test2_writes_back(test2)
    THEN {test2.MEM_WB_latch.inst.rd}
    ELSE {}

\* C36: no step of test2.c reads or writes R[] at an index outside
\* [0, NUM_REGS); execute_stage never indexes R[] with the sentinel -1 of a
\* MOV.
Test2RegisterSafety ==
    \A r \in Test2Indexes : r >= 0 /\ r < NUM_REGS

\* ---------------------------------------------------------------- C37
\* C37: on a MOV/ADD/SUB/MUL program with register indices inside R[], the
\* instructions test2.c has executed are at every moment the first lines of
\* the program, in order and once each (no stall skips or repeats a line),
\* and when main has left the loop all of them have been executed and R[]
\* equals the register file of executing the lines one at a time.
Test2Sequential ==
    ALUInRange(test2.program) =>
        /\ Len(test2.executed) <= test2.inst_count
        /\ \A k \in 1..Len(test2.executed) : test2.executed[k] = test2.program[k]
        /\ test2.pc = "done" =>
              /\ test2.executed = test2.program
              /\ test2.R = SequentialFrom(test2.program, 1, ZeroRegs)

\* A drained in-range program of three lines that stalled twice.
Test2SequentialWitness ==
    /\ test2.pc = "done" /\ ALUInRange(test2.program)
    /\ test2.inst_count = 3 /\ test2.stalls = 2
    /\ test2.R[test2.program[3].rd] # 0

\* ------------------------------------------------- src/test1/test.c
\* The five-latch simulator: IF, ID, EX, MEM, WB as globals, a stall when ID
\* reads the destination of the instruction in EX, forwarding from MEM and WB.
\* Longest program the model loads into it.
Test1MaxLen == 3

test1_make_nop ==
    [op |-> "OP_NOOP", rd |-> -1, rs1 |-> -1, rs2 |-> -1, imm |-> 0, valid |-> 0]

\* A latch as init_pipeline and the next-latch code of main fill it.
test1_latch(inst) ==
    [inst |-> inst, alu_result |-> 0, val_rs1 |-> 0, val_rs2 |-> 0]

\* What parse_line of test.c stores for a line with a known opcode: the line
\* is valid whatever sscanf read, and a field sscanf did not reach stays -1.
test1_parse_line(op, rd, rs1, rs2, imm) ==
    [op |-> op, rd |-> rd, rs1 |-> rs1, rs2 |-> rs2, imm |-> imm, valid |-> 1]

\* mov R1,5  mov R2,3  add R3,R1,R2  sub R1,R3,R1  mul R2,R2,R2
\* mov R100000000,1  add
Test1Pool ==
    { test1_parse_line("OP_MOV", 1, -1, -1, 5),
      test1_parse_line("OP_MOV", 2, -1, -1, 3),
      test1_parse_line("OP_ADD", 3, 1, 2, 0),
      test1_parse_line("OP_SUB", 1, 3, 1, 0),
      test1_parse_line("OP_MUL", 2, 2, 2, 0),
      test1_parse_line("OP_MOV", 100000000, -1, -1, 1),
      test1_parse_line("OP_ADD", -1, -1, -1, 0) }

\* main up to cycle = 1: the globals, init_pipeline, the loaded program.
test1_init(prog) ==
    [R |-> [i \in 0..(NUM_REGS - 1) |-> 0],
     program |-> prog, inst_count |-> Len(prog), PC |-> 0,
     IF_latch |-> test1_latch(test1_make_nop),
     ID_latch |-> test1_latch(test1_make_nop),
     EX_latch |-> test1_latch(test1_make_nop),
     MEM_latch |-> test1_latch(test1_make_nop),
     WB_latch |-> test1_latch(test1_make_nop),
     stall |-> FALSE, cycle |-> 1, pc |-> "test", stalls |-> 0]

test1_pipeline_empty(t) ==
    /\ t.IF_latch.inst.valid = 0 /\ t.ID_latch.inst.valid = 0
    /\ t.EX_latch.inst.valid = 0 /\ t.MEM_latch.inst.valid = 0
    /\ t.WB_latch.inst.valid = 0

\* Mutant: the hazard test looks at the first source only.
test1_detect_ex_hazard_rs1(id_inst, ex_inst) ==
    /\ id_inst.valid # 0 /\ ex_inst.valid # 0
    /\ ex_inst.op # "OP_NOOP" /\ ex_inst.rd # -1
    /\ id_inst.rs1 # -1 /\ id_inst.rs1 = ex_inst.rd

\* detect_ex_hazard
test1_detect_ex_hazard(id_inst, ex_inst) ==
    IF id_inst.valid = 0 THEN FALSE
    ELSE IF ex_inst.valid = 0 THEN FALSE
    ELSE IF ex_inst.op = "OP_NOOP" THEN FALSE
    ELSE IF ex_inst.rd = -1 THEN FALSE
    ELSE IF id_inst.rs1 # -1 /\ id_inst.rs1 = ex_inst.rd THEN TRUE
    ELSE IF id_inst.rs2 # -1 /\ id_inst.rs2 = ex_inst.rd THEN TRUE
    ELSE FALSE

\* The words R[reg] can read when resolve_operand reaches the register file:
\* the register, or any word when reg is outside R[].
test1_read(t, reg) == IF reg >= 0 /\ reg < NUM_REGS THEN {t.R[reg]} ELSE UBWords

\* resolve_operand; raw is what R[reg] reads if it is reached.
test1_resolve_operand(reg, mem, wb, raw) ==
    IF reg = -1 THEN 0
    ELSE IF mem.inst.valid # 0 /\ mem.inst.rd = reg /\ mem.inst.op # "OP_NOOP"
         THEN mem.alu_result
    ELSE IF wb.inst.valid # 0 /\ wb.inst.rd = reg /\ wb.inst.op # "OP_NOOP"
         THEN wb.alu_result
    ELSE raw

\* execute_stage_compute: the EX latch after the call.
test1_execute_stage_compute(ex, mem, wb, raw1, raw2) ==
    IF ex.inst.valid = 0 \/ ex.inst.op = "OP_NOOP"
    THEN [ex EXCEPT !.alu_result = 0, !.val_rs1 = 0, !.val_rs2 = 0]
    ELSE LET v1 == IF ex.inst.rs1 # -1
                   THEN test1_resolve_operand(ex.inst.rs1, mem, wb, raw1) ELSE 0
             v2 == IF ex.inst.rs2 # -1
                   THEN test1_resolve_operand(ex.inst.rs2, mem, wb, raw2) ELSE 0
         IN [ex EXCEPT
                !.val_rs1 = v1, !.val_rs2 = v2,
                !.alu_result = CASE ex.inst.op = "OP_MOV" -> ex.inst.imm
                                 [] ex.inst.op = "OP_ADD" -> v1 + v2
                                 [] ex.inst.op = "OP_SUB" -> v1 - v2
                                 [] ex.inst.op = "OP_MUL" -> v1 * v2
                                 [] OTHER -> 0]

\* The guard of the write-back block of main.
test1_writes_back(t) ==
    /\ t.WB_latch.inst.valid # 0 /\ t.WB_latch.inst.op # "OP_NOOP"
    /\ t.WB_latch.inst.rd >= 0

\* main: nextWB .. nextIF, the commit of the five latches, and cycle++.
test1_next_latches(t, stall) ==
    [t EXCEPT
       !.WB_latch = t.MEM_latch,
       !.MEM_latch = t.EX_latch,
       !.EX_latch = IF stall THEN test1_latch(test1_make_nop)
                    ELSE [t.ID_latch EXCEPT !.alu_result = 0,
                                            !.val_rs1 = 0, !.val_rs2 = 0],
       !.ID_latch = IF stall THEN t.ID_latch ELSE t.IF_latch,
       !.IF_latch = IF stall THEN t.IF_latch
                    ELSE IF t.PC < t.inst_count
                         THEN test1_latch(t.program[t.PC + 1])
                         ELSE test1_latch(test1_make_nop),
       !.PC = IF ~stall /\ t.PC < t.inst_count THEN t.PC + 1 ELSE t.PC,
       !.cycle = t.cycle + 1,
       !.stalls = IF stall THEN t.stalls + 1 ELSE t.stalls,
       !.pc = "test"]

InitTest1 ==
    /\ \E prog \in UNION { [1..n -> Test1Pool] : n \in 0..Test1MaxLen } :
          test1 = test1_init(prog)
    /\ Test3Idle
    /\ test2 = "off" /\ prog1 = "off" /\ fwd = "off" /\ pipe = "off"

\* main: while (PC < inst_count || !pipeline_empty())
Test1LoopEnter ==
    /\ test1.pc = "test"
    /\ test1.PC < test1.inst_count \/ ~test1_pipeline_empty(test1)
    /\ test1' = [test1 EXCEPT !.pc = "wb"]
    /\ UNCHANGED <<test3_vars, test2, prog1, fwd, pipe>>

Test1LoopExit ==
    /\ test1.pc = "test"
    /\ ~(test1.PC < test1.inst_count \/ ~test1_pipeline_empty(test1))
    /\ test1' = [test1 EXCEPT !.pc = "done"]
    /\ UNCHANGED <<test3_vars, test2, prog1, fwd, pipe>>

\* main: the write-back block.  A destination beyond R[] makes the write
\* undefined: the run is killed, or the word lands outside the register file
\* and the run goes on.
Test1WB ==
    /\ test1.pc = "wb"
    /\ \/ /\ ~test1_writes_back(test1)
          /\ test1' = [test1 EXCEPT !.pc = "ex"]
       \/ /\ test1_writes_back(test1)
          /\ test1.WB_latch.inst.rd < NUM_REGS
          /\ test1' = [test1 EXCEPT
                          !.R[test1.WB_latch.inst.rd] = test1.WB_latch.alu_result,
                          !.pc = "ex"]
       \/ /\ test1_writes_back(test1)
          /\ ~(test1.WB_latch.inst.rd < NUM_REGS)
          /\ \E next \in {"killed", "ex"} : test1' = [test1 EXCEPT !.pc = next]
    /\ UNCHANGED <<test3_vars, test2, prog1, fwd, pipe>>

\* main: execute_stage_compute(&EX_latch, &MEM_latch, &WB_latch)
Test1EX ==
    /\ test1.pc = "ex"
    /\ \E raw1 \in test1_read(test1, test1.EX_latch.inst.rs1),
          raw2 \in test1_read(test1, test1.EX_latch.inst.rs2) :
          test1' = [test1 EXCEPT
                       !.EX_latch = test1_execute_stage_compute(
                                        test1.EX_latch, test1.MEM_latch,
                                        test1.WB_latch, raw1, raw2),
                       !.pc = "hazard"]
    /\ UNCHANGED <<test3_vars, test2, prog1, fwd, pipe>>

\* main: stall = detect_ex_hazard(&ID_latch.inst, &EX_latch.inst)
Test1Hazard ==
    /\ test1.pc = "hazard"
    /\ test1' = [test1 EXCEPT
                    !.stall = test1_detect_ex_hazard(test1.ID_latch.inst,
                                                     test1.EX_latch.inst),
                    !.pc = "next"]
    /\ UNCHANGED <<test3_vars, test2, prog1, fwd, pipe>>

Test1Advance ==
    /\ test1.pc = "next"
    /\ test1' = test1_next_latches(test1, test1.stall)
    /\ UNCHANGED <<test3_vars, test2, prog1, fwd, pipe>>

NextTest1 ==
    \/ Test1LoopEnter \/ Test1LoopExit
    \/ Test1WB \/ Test1EX \/ Test1Hazard \/ Test1Advance

SpecTest1 == InitTest1 /\ [][NextTest1]_vars

\* ---------------------------------------------------------------- C38
\* Line k + 1 of prog reads the register line k of prog writes.
AdjacentDependent(prog, k) ==
    /\ prog[k].rd # -1
    /\ \/ prog[k + 1].rs1 # -1 /\ prog[k + 1].rs1 = prog[k].rd
       \/ prog[k + 1].rs2 # -1 /\ prog[k + 1].rs2 = prog[k].rd

\* ID holds a valid instruction one of whose sources is the destination of
\* the valid instruction in EX.
Test1IDReadsEX ==
    /\ test1.ID_latch.inst.valid # 0 /\ test1.EX_latch.inst.valid # 0
    /\ test1.EX_latch.inst.rd # -1
    /\ test1.EX_latch.inst.rd \in
          {test1.ID_latch.inst.rs1, test1.ID_latch.inst.rs2}

\* C38: in test.c a cycle stalls exactly when ID reads the destination of the
\* valid instruction in EX; the stall puts a NOP into EX and holds ID, IF and
\* PC; and when main has left the loop on a MOV/ADD/SUB/MUL program the
\* register file equals that of executing the lines one at a time in program
\* order, after one stall cycle for each line that reads the destination of
\* the line just before it.
Test1StallEquivalence ==
    /\ test1.pc = "next" =>
          /\ test1.stall <=> Test1IDReadsEX
          /\ test1.stall =>
                LET n == test1_next_latches(test1, test1.stall)
                IN /\ n.EX_latch = test1_latch(test1_make_nop)
                   /\ n.ID_latch = test1.ID_latch
                   /\ n.IF_latch = test1.IF_latch
                   /\ n.PC = test1.PC
                   /\ n.MEM_latch = test1.EX_latch
    /\ (test1.pc = "done" /\ ALUInRange(test1.program)) =>
          /\ test1.R = SequentialFrom(test1.program, 1, ZeroRegs)
          /\ test1.stalls =
                Cardinality({ k \in 1..(test1.inst_count - 1) :
                                 AdjacentDependent(test1.program, k) })

\* A drained program of three in-range lines in which every line reads the
\* destination of the line before it, run with two stall cycles.
Test1StallWitness ==
    /\ test1.pc = "done" /\ test1.inst_count = 3 /\ ALUInRange(test1.program)
    /\ AdjacentDependent(test1.program, 1)
    /\ AdjacentDependent(test1.program, 2)
    /\ test1.stalls = 2
    /\ test1.R[test1.program[3].rd] # 0

\* ------------------------------------------- src/dataHazard/pipeline.c
\* The five-stage simulator without hazard detection or forwarding: a stage
\* holds the text of its instruction (mnemonic and three operand strings) and
\* doWB turns the text into register numbers and values.  A string is a
\* sequence of one-character strings.
\* Longest program the model loads into it.
PipeMaxLen == 3

\* int reg[8]
PIPE_REGS == 8

PipeDigits == <<"0", "1", "2", "3", "4", "5", "6", "7", "8", "9">>

PipeSpace == {" ", "\t", "\n"}

\* The first position from i on that holds no white space.
RECURSIVE pipe_skip_space(_, _)
pipe_skip_space(s, i) ==
    IF i <= Len(s) /\ s[i] \in PipeSpace THEN pipe_skip_space(s, i + 1) ELSE i

\* The first position from i on that holds a character of stop, or the end.
RECURSIVE pipe_run(_, _, _)
pipe_run(s, i, stop) ==
    IF i <= Len(s) /\ s[i] \notin stop THEN pipe_run(s, i + 1, stop) ELSE i

\* sscanf(program[pc], "%s %[^,],%[^,],%s", i, o1, o2, o3): x is the number
\* of conversions done (-1 at the end of input before the first); %s skips
\* white space and reads up to white space, %[^,] reads a non-empty run of
\* characters other than the comma without skipping anything.
pipe_sscanf(line) ==
    LET a == pipe_skip_space(line, 1)
        b == pipe_run(line, a, PipeSpace)
        c == pipe_skip_space(line, b)
        d == pipe_run(line, c, {","})
        e == d + 1
        f == pipe_run(line, e, {","})
        g == pipe_skip_space(line, f + 1)
        h == pipe_run(line, g, PipeSpace)
        x == IF b = a THEN -1
             ELSE IF d = c THEN 1
             ELSE IF ~(d <= Len(line) /\ line[d] = ",") THEN 2
             ELSE IF f = e THEN 2
             ELSE IF ~(f <= Len(line) /\ line[f] = ",") THEN 3
             ELSE IF h = g THEN 3
             ELSE 4
    IN [x |-> x,
        i  |-> IF x >= 1 THEN SubSeq(line, a, b - 1) ELSE <<>>,
        o1 |-> IF x >= 2 THEN SubSeq(line, c, d - 1) ELSE <<>>,
        o2 |-> IF x >= 3 THEN SubSeq(line, e, f - 1) ELSE <<>>,
        o3 |-> IF x >= 4 THEN SubSeq(line, g, h - 1) ELSE <<>>]

\* What a buffer of main holds after sscanf: the conversion if it was done,
\* any string if the buffer was left uninitialised.
pipe_buffer(assigned, token) ==
    IF assigned THEN {token} ELSE {<<>>, <<"r", "1">>}

RECURSIVE pipe_digits(_, _, _)
pipe_digits(s, i, acc) ==
    IF i <= Len(s) /\ (\E d \in 1..10 : PipeDigits[d] = s[i])
    THEN pipe_digits(s, i + 1,
                     acc * 10 + (CHOOSE d \in 1..10 : PipeDigits[d] = s[i]) - 1)
    ELSE acc

\* atoi: leading white space, an optional sign, then digits up to the first
\* other character.
pipe_atoi(s) ==
    LET a == pipe_skip_space(s, 1)
        signed == a <= Len(s) /\ s[a] \in {"+", "-"}
        v == pipe_digits(s, IF signed THEN a + 1 ELSE a, 0)
    IN IF signed /\ s[a] = "-" THEN 0 - v ELSE v

\* getIndex
getIndex(r) ==
    IF Len(r) >= 1 /\ r[1] = "r" THEN pipe_atoi(Tail(r)) - 1 ELSE -1

PipeMov == <<"m", "o", "v">>
PipeAdd == <<"a", "d", "d">>
PipeMul == <<"m", "u", "l">>

\* The elements of reg[] doWB reads and writes for the stage s.
pipe_indexes(s) ==
    IF s.valid = 0 THEN {}
    ELSE IF s.instr = PipeMov THEN {getIndex(s.op1)}
    ELSE IF s.instr \in {PipeAdd, PipeMul}
         THEN {getIndex(s.op1), getIndex(s.op2), getIndex(s.op3)}
    ELSE {}

\* The words reg[k] can read: the register, or any word when k is outside
\* reg[].
pipe_read(regs, k) == IF k >= 0 /\ k < PIPE_REGS THEN {regs[k]} ELSE UBWords

\* doWB: reg[] after the call; raw1 and raw2 are what reg[rs1] and reg[rs2]
\* read, and a write outside reg[] leaves reg[] as it was.
doWB(regs, s, raw1, raw2) ==
    IF s.valid = 0 THEN regs
    ELSE LET rd == getIndex(s.op1)
             val == IF s.instr = PipeMov THEN pipe_atoi(s.op2)
                    ELSE IF s.instr = PipeAdd THEN raw1 + raw2
                    ELSE raw1 * raw2
         IN IF s.instr \in {PipeMov, PipeAdd, PipeMul}
               /\ rd >= 0 /\ rd < PIPE_REGS
            THEN [regs EXCEPT ![rd] = val]
            ELSE regs

\* The stage globals before main assigns them.
pipe_stage_zero ==
    [instr |-> <<>>, op1 |-> <<>>, op2 |-> <<>>, op3 |-> <<>>, valid |-> 0]

\* The instructions of the programs: mov r1,5  mov r2,3  add r3,r1,r2
\* mul r2,r2,r2; rd, rs1 and rs2 are register numbers 1..8.
PipeInstructions ==
    { [op |-> PipeMov, rd |-> 1, rs1 |-> 0, rs2 |-> 0, imm |-> 5],
      [op |-> PipeMov, rd |-> 2, rs1 |-> 0, rs2 |-> 0, imm |-> 3],
      [op |-> PipeAdd, rd |-> 3, rs1 |-> 1, rs2 |-> 2, imm |-> 0],
      [op |-> PipeMul, rd |-> 2, rs1 |-> 2, rs2 |-> 2, imm |-> 0] }

\* What stands between two operands in instruction.txt: a comma, or a comma
\* and a blank.
PipeSeparators == { <<",">>, <<",", " ">> }

\* The line of instruction.txt that writes the instruction ins with the
\* separator sep, as fgets stores it.
PipeLine(ins, sep) ==
    LET reg_name(k) == <<"r", PipeDigits[k + 1]>>
    IN IF ins.op = PipeMov
       THEN ins.op \o <<" ">> \o reg_name(ins.rd) \o sep
                   \o <<PipeDigits[ins.imm + 1]>> \o <<"\n">>
       ELSE ins.op \o <<" ">> \o reg_name(ins.rd) \o sep \o reg_name(ins.rs1)
                   \o sep \o reg_name(ins.rs2) \o <<"\n">>

\* main up to cycle = 1: the globals (IF_stage is the stage IF), the lines
\* read by fgets, the valid flags.  written is the program the lines write
\* down.
pipe_init(src, seps) ==
    [reg |-> [k \in 0..(PIPE_REGS - 1) |-> 0],
     program |-> [k \in 1..Len(src) |-> PipeLine(src[k], seps[k])],
     n |-> Len(src), pc |-> 0,
     IF_stage |-> pipe_stage_zero, ID |-> pipe_stage_zero, EX |-> pipe_stage_zero,
     MEM |-> pipe_stage_zero, WB |-> pipe_stage_zero,
     done |-> 0, cycle |-> 1, at |-> "wb", written |-> src]

\* main: the IF stage after the fetch of program[pc]; i and o1 are what the
\* buffers of those names hold after sscanf.
pipe_fetch(line, i, o1) ==
    LET r == pipe_sscanf(line)
    IN [instr |-> i, op1 |-> o1,
        op2 |-> IF r.x >= 3 THEN r.o2 ELSE <<>>,
        op3 |-> IF r.x >= 4 THEN r.o3 ELSE <<>>,
        valid |-> 1]

InitPipe ==
    /\ \E len \in 0..PipeMaxLen :
          \E src \in [1..len -> PipeInstructions],
             seps \in [1..len -> PipeSeparators] :
             pipe = pipe_init(src, seps)
    /\ Test3Idle
    /\ test2 = "off" /\ prog1 = "off" /\ fwd = "off" /\ test1 = "off"

\* main: doWB(&WB).  An index outside reg[] makes the access undefined: the
\* run is killed, or it goes on with whatever the read gave.
PipeWB ==
    /\ pipe.at = "wb"
    /\ \/ /\ pipe_indexes(pipe.WB) = {}
          /\ pipe' = [pipe EXCEPT !.at = "shift"]
       \/ /\ pipe_indexes(pipe.WB) # {}
          /\ pipe_indexes(pipe.WB) \subseteq 0..(PIPE_REGS - 1)
          /\ pipe' = [pipe EXCEPT
                         !.reg = doWB(pipe.reg, pipe.WB,
                                      pipe.reg[getIndex(pipe.WB.op2)],
                                      pipe.reg[getIndex(pipe.WB.op3)]),
                         !.at = "shift"]
       \/ /\ ~(pipe_indexes(pipe.WB) \subseteq 0..(PIPE_REGS - 1))
          /\ \/ pipe' = [pipe EXCEPT !.at = "killed"]
             \/ \E raw1 \in pipe_read(pipe.reg, getIndex(pipe.WB.op2)),
                   raw2 \in pipe_read(pipe.reg, getIndex(pipe.WB.op3)) :
                   pipe' = [pipe EXCEPT
                               !.reg = doWB(pipe.reg, pipe.WB, raw1, raw2),
                               !.at = "shift"]
    /\ UNCHANGED <<test3_vars, test2, prog1, fwd, test1>>

\* main: WB = MEM; MEM = EX; EX = ID; ID = IF; then the fetch into IF.
PipeShift ==
    /\ pipe.at = "shift"
    /\ \/ /\ pipe.pc < pipe.n
          /\ LET line == pipe.program[pipe.pc + 1]
                 r == pipe_sscanf(line)
             IN \E i \in pipe_buffer(r.x >= 1, r.i),
                   o1 \in pipe_buffer(r.x >= 2, r.o1) :
                   pipe' = [pipe EXCEPT
                               !.WB = pipe.MEM, !.MEM = pipe.EX,
                               !.EX = pipe.ID, !.ID = pipe.IF_stage,
                               !.IF_stage = pipe_fetch(line, i, o1),
                               !.pc = pipe.pc + 1,
                               !.at = "test"]
       \/ /\ ~(pipe.pc < pipe.n)
          /\ pipe' = [pipe EXCEPT
                         !.WB = pipe.MEM, !.MEM = pipe.EX,
                         !.EX = pipe.ID, !.ID = pipe.IF_stage,
                         !.IF_stage.valid = 0,
                         !.at = "test"]
    /\ UNCHANGED <<test3_vars, test2, prog1, fwd, test1>>

\* main: the test that sets done.
pipe_drained(p) ==
    /\ p.pc >= p.n
    /\ p.IF_stage.valid = 0 /\ p.ID.valid = 0 /\ p.EX.valid = 0
    /\ p.MEM.valid = 0 /\ p.WB.valid = 0

\* main: done = 1, cycle++, and while (!done) leaves the loop.
PipeLoopExit ==
    /\ pipe.at = "test"
    /\ pipe_drained(pipe)
    /\ pipe' = [pipe EXCEPT !.done = 1, !.cycle = pipe.cycle + 1, !.at = "done"]
    /\ UNCHANGED <<test3_vars, test2, prog1, fwd, test1>>

\* main: cycle++ and the next turn of while (!done).
PipeLoopAgain ==
    /\ pipe.at = "test"
    /\ ~pipe_drained(pipe)
    /\ pipe' = [pipe EXCEPT !.cycle = pipe.cycle + 1, !.at = "wb"]
    /\ UNCHANGED <<test3_vars, test2, prog1, fwd, test1>>

NextPipe == PipeWB \/ PipeShift \/ PipeLoopExit \/ PipeLoopAgain

SpecPipe == InitPipe /\ [][NextPipe]_vars

\* ---------------------------------------------------------------- C39
\* The registers after executing the instructions k..Len(src) of src one at
\* a time, in program order, starting from regs.
RECURSIVE SequentialPipe(_, _, _)
SequentialPipe(src, k, regs) ==
    IF k > Len(src) THEN regs
    ELSE LET ins == src[k]
             v == IF ins.op = PipeMov THEN ins.imm
                  ELSE IF ins.op = PipeAdd
                       THEN regs[ins.rs1 - 1] + regs[ins.rs2 - 1]
                  ELSE regs[ins.rs1 - 1] * regs[ins.rs2 - 1]
         IN SequentialPipe(src, k + 1, [regs EXCEPT ![ins.rd - 1] = v])

\* C39: for a program of mov, add and mul on r1..r8 the run of pipeline.c is
\* not killed, and when main has left the loop every line has been fetched,
\* the five stages are invalid and reg[] equals the registers of executing
\* the written program one instruction at a time, in program order.
PipeSequential ==
    /\ pipe.at # "killed"
    /\ pipe.at = "done" =>
          /\ pipe_drained(pipe)
          /\ pipe.reg = SequentialPipe(pipe.written, 1,
                                       [k \in 0..(PIPE_REGS - 1) |-> 0])
====
